---- MODULE Spec2Model ----
(***************************************************************************)
(* A model of the xray runtime state bridge: the host-side command queue   *)
(* of the Vite plugin, the client-side push / poll loops of the injected   *)
(* script, and the bounded collector.                                      *)
(***************************************************************************)
EXTENDS Integers, Sequences, FiniteSets, TLC

\* ------------------------------------------------------------------ bounds
\* Number of command ids the host may hand out in one run.
MaxCommands == 2
\* Number of collector operations in one run (also the collector's clock).
MaxOps == 4
\* Largest buffer cap a collector configuration is drawn with.
MaxCap == 2
MaxInstalls == 2
\* Number of properties of all objects of a value given to the serializer.
MaxProps == 3
\* createCollector calls in one run
MaxCollectors == 2
\* Bytes of the longest request body
MaxBytes == 4

\* ------------------------------------------------------- program constants
\* _DEFAULT_MAX_REQUEST_BODY_SIZE
DEFAULT_MAX_REQUEST_BODY_SIZE == 1048576

\* ------------------------------------------------------------------ values
\* JavaScript undefined / null.
Undefined == "undefined"
Null == "null"

\* Math.random().toString(36).slice(2): ids are opaque; the model numbers them.
Ids == 1 .. MaxCommands

\* Operation names the endpoints queue (queryDom: /xray/dom, getFunctions:
\* /xray/functions).
Commands == {"queryDom", "getFunctions"}

\* The keys of the capability table window.__XRAY_BROWSER__ among them:
\* getFunctions is queued by the host but is no key of the table.
XRAY_BROWSER == {"queryDom"}

\* The argument list an endpoint builds from its query parameters.
ArgsOf(command) ==
    IF command = "queryDom"
    THEN <<"#app", [includeStyles |-> FALSE, all |-> FALSE]>>
    ELSE << >>

\* Values an operation may return: a small JSON value, nothing (undefined),
\* or a payload longer than the request body limit (the html of a large page).
NoResult == [v |-> "undefined", size |-> 0]
ResultKinds == {"small", "huge", "none"}
Result(kind) ==
    IF kind = "small" THEN [v |-> "r", size |-> 16]
    ELSE IF kind = "huge" THEN [v |-> "html", size |-> DEFAULT_MAX_REQUEST_BODY_SIZE + 1]
    ELSE [v |-> "undefined", size |-> 0]

\* Messages of the exceptions an operation may throw: new Error("boom"),
\* and new Error() whose message is the empty string.
ThrownMessages == {"boom", ""}

\* `Command "<name>" timed out`
TimeoutMessage(command) == "Command \"" \o command \o "\" timed out"

\* 'Command not found: ' + command
NotFoundMessage(command) == "Command not found: " \o command

\* JavaScript truthiness of the `error` field of a result report.
Truthy(v) == v # Undefined /\ v # Null /\ v # ""

\* Length of the text JSON.stringify({id, result, error}) produces.
BodySize(result) == 8 + result.size

VARIABLES
    \* host process (Vite plugin module state)
    pendingCommands,  \* Map<string, PendingCommand> in insertion order
    timers,           \* live setTimeout handles: id -> closure {command}
    promise,          \* the promise queueCommand returned, per id
    fired,            \* per id, how often resolve / reject was invoked
    responses,        \* per id, the bodies the endpoint handler sent (res.end)
    currentState,     \* the latest pushed snapshot, or Null
    last,             \* the answer to the latest request of an outside caller
    \* client runtime (injected script)
    polling, pollFrames,   \* in-flight flag and activations of pollCommands
    pushing, pushFrames,   \* in-flight flag and activations of pushState
    windowCollector,       \* window.__XRAY_COLLECTOR__ is set
    executed,              \* per id, how often its operation was invoked: 0, 1, many
    reloaded,              \* the client runtime has reloaded
    \* collector
    cfg, registered, errors, warnings, consoleEntries, networkRequests,
    heap,             \* the network entry objects, by reference
    now,              \* Date.now(), advanced by every collector operation
    appended,         \* per buffer, what was appended since the last clear
    op,               \* the collector operation that ran last, with its key
    held, heldView,   \* a snapshot a caller holds, and its content when returned
    \* plugin options
    secret,           \* xrayPlugin({secret}): the shared secret, or Undefined
    \* page (interceptors module state and the globals it replaces)
    isIntercepting,   \* let isIntercepting
    cleanupFns,       \* let cleanupFns: the cleanup closures, in push order
    hooks,            \* console[level], window.fetch and the window listeners
    icfg,             \* const cfg of the installation whose wrappers are in place
    installed,        \* how many installations have been made
    handles,          \* the callables setupInterceptors has returned
    invoked,          \* the installation whose returned callable ran last
    pageOp,           \* the page operation that ran last
    calls,            \* per id, the call of the fetch wrapper that drew it
    \* serializer
    graph,            \* the objects of the value a caller has built
    serialized,       \* the latest call of safeSerialize: arguments and outcome
    \* framework adapters (React provider and hooks, Vue plugin, Svelte init)
    globalCollector,  \* let globalCollector of the core: a collector or Null
    created,          \* how many collectors createCollector has returned
    registries,       \* per collector, its `registered` map
    adapter,          \* the adapter's module state (or refs) and its lifecycle
    consumer,         \* a component that calls useXray(name, state)
    \* a request body on its way into readBodyWithLimit
    incoming,         \* the request: declared length, chunks not yet emitted
    reader,           \* the closure of readBodyWithLimit: body, receivedSize, aborted
    answers           \* what has been sent on the response, in order

hostVars == <<pendingCommands, timers, promise, fired, responses, currentState, last>>
clientVars == <<polling, pollFrames, pushing, pushFrames, windowCollector, executed, reloaded>>
collectorVars == <<cfg, registered, errors, warnings, consoleEntries, networkRequests,
                   heap, now, appended, op, held, heldView>>
pageVars == <<isIntercepting, cleanupFns, hooks, icfg, installed, handles, invoked, pageOp, calls>>
serializerVars == <<graph, serialized>>
adapterVars == <<globalCollector, created, registries, adapter, consumer>>
streamVars == <<incoming, reader, answers>>
vars == <<hostVars, clientVars, collectorVars, secret, serializerVars, adapterVars,
          streamVars, pageVars>>

\* ------------------------------------------------------------ host process
\* Map.prototype.has / get / set / delete on the insertion-ordered table.
MapHas(m, id) == \E i \in 1 .. Len(m) : m[i].id = id
MapGet(m, id) == m[CHOOSE i \in 1 .. Len(m) : m[i].id = id]
MapSet(m, id, rec) ==
    IF MapHas(m, id)
    THEN [i \in 1 .. Len(m) |-> IF m[i].id = id THEN rec ELSE m[i]]
    ELSE Append(m, rec)
MapDelete(m, id) == SelectSeq(m, LAMBDA r : r.id # id)

\* Ids queueCommand has handed out so far.
UsedIds == {i \in Ids : promise[i].state # "none"}

\* No request has been answered yet.
NoLast == [op |-> "none", req |-> << >>, status |-> 0, wasPending |-> FALSE,
           listing |-> << >>]

\* The resolve / reject function of the promise of command id is invoked.  A
\* promise settles on the first invocation only; the endpoint handler awaiting
\* it then answers its request: res.end(JSON.stringify(result)) or, in the
\* catch branch, res.end(JSON.stringify({error: err.message})).
InvokeContinuation(id, st, result, error) ==
    /\ fired' = [fired EXCEPT ![id] = @ + 1]
    /\ IF promise[id].state = "pending"
       THEN /\ promise' = [promise EXCEPT
                 ![id] = [state |-> st, result |-> result, error |-> error]]
            /\ responses' = [responses EXCEPT
                 ![id] = Append(@, [result |-> result, error |-> error])]
       ELSE UNCHANGED <<promise, responses>>

\* queueCommand without the setTimeout call.
queueCommand_noTimer(command, args, id) ==
    /\ timers' = timers
    /\ pendingCommands' = MapSet(pendingCommands, id,
           [id |-> id, command |-> command, args |-> args, timeout |-> id])
    /\ promise' = [promise EXCEPT
           ![id] = [state |-> "pending", result |-> NoResult, error |-> Undefined]]
    /\ UNCHANGED <<fired, responses>>

\* queueCommand(command, args, timeoutMs): the promise executor starts the
\* timer and stores the record; id is what Math.random() produced.
queueCommand(command, args, id) ==
    /\ timers' = timers \cup {[id |-> id, command |-> command]}
    /\ pendingCommands' = MapSet(pendingCommands, id,
           [id |-> id, command |-> command, args |-> args, timeout |-> id])
    /\ promise' = [promise EXCEPT
           ![id] = [state |-> "pending", result |-> NoResult, error |-> Undefined]]
    /\ UNCHANGED <<fired, responses>>

\* getPendingCommands(): {id, command, args} of every record, in table order.
getPendingCommands ==
    [i \in 1 .. Len(pendingCommands) |->
        [id |-> pendingCommands[i].id,
         command |-> pendingCommands[i].command,
         args |-> pendingCommands[i].args]]

\* resolveCommand without pendingCommands.delete(id).
resolveCommand_keepsRecord(id, result, error) ==
    IF MapHas(pendingCommands, id)
    THEN /\ timers' = {t \in timers : t.id # MapGet(pendingCommands, id).timeout}
         /\ pendingCommands' = pendingCommands
         /\ IF Truthy(error)
            THEN InvokeContinuation(id, "rejected", NoResult, error)
            ELSE InvokeContinuation(id, "fulfilled", result, Undefined)
    ELSE UNCHANGED <<timers, pendingCommands, promise, fired, responses>>

\* resolveCommand(id, result, error)
resolveCommand(id, result, error) ==
    IF MapHas(pendingCommands, id)
    THEN /\ timers' = {t \in timers : t.id # MapGet(pendingCommands, id).timeout}
         /\ pendingCommands' = MapDelete(pendingCommands, id)
         /\ IF Truthy(error)
            THEN InvokeContinuation(id, "rejected", NoResult, error)
            ELSE InvokeContinuation(id, "fulfilled", result, Undefined)
    ELSE UNCHANGED <<timers, pendingCommands, promise, fired, responses>>

\* The timeout callback without pendingCommands.delete(id).
timerFires_keepsRecord(t) ==
    /\ t \in timers
    /\ timers' = timers \ {t}
    /\ pendingCommands' = pendingCommands
    /\ InvokeContinuation(t.id, "rejected", NoResult, TimeoutMessage(t.command))
    /\ UNCHANGED <<currentState, last, clientVars, collectorVars, secret, serializerVars, adapterVars, streamVars, pageVars>>

\* The setTimeout callback of queueCommand: the timer of command t.id expires.
timerFires(t) ==
    /\ t \in timers
    /\ timers' = timers \ {t}
    /\ pendingCommands' = MapDelete(pendingCommands, t.id)
    /\ InvokeContinuation(t.id, "rejected", NoResult, TimeoutMessage(t.command))
    /\ UNCHANGED <<currentState, last, clientVars, collectorVars, secret, serializerVars, adapterVars, streamVars, pageVars>>

\* A command-backed endpoint (/xray/dom, /xray/functions) past its checks of
\* the secret and of the query parameters: the handler calls queueCommand
\* with its fixed operation name and awaits the promise.
CommandEndpoint(command, id) ==
    /\ id \in Ids \ UsedIds
    /\ queueCommand(command, ArgsOf(command), id)
    /\ UNCHANGED <<currentState, last, clientVars, collectorVars, secret, serializerVars, adapterVars, streamVars, pageVars>>

\* readBodyWithLimit(req, res, maxSize): "tooLarge" stands for the null it
\* returns after it has answered 413.
readBodyWithLimit(size, maxSize) == IF size > maxSize THEN "tooLarge" ELSE "read"

\* A handler that reports a result for an id it does not know.
ResultStatus_strict(req) ==
    IF req.method # "POST" THEN 405
    ELSE IF readBodyWithLimit(req.size, DEFAULT_MAX_REQUEST_BODY_SIZE) = "tooLarge" THEN 413
    ELSE IF ~req.json THEN 400
    ELSE IF ~MapHas(pendingCommands, req.id) THEN 404
    ELSE 200

\* The status the /xray/__result handler answers request req with.
ResultStatus(req) ==
    IF req.method # "POST" THEN 405
    ELSE IF readBodyWithLimit(req.size, DEFAULT_MAX_REQUEST_BODY_SIZE) = "tooLarge" THEN 413
    ELSE IF ~req.json THEN 400
    ELSE 200

\* The /xray/__result handler: resolveCommand runs for a POST whose body was
\* read and parsed.
ResultHandler(req) ==
    /\ IF ResultStatus(req) = 200
       THEN resolveCommand(req.id, req.result, req.error)
       ELSE UNCHANGED <<timers, pendingCommands, promise, fired, responses>>
    /\ UNCHANGED currentState

\* The /xray/__commands handler: answers with getPendingCommands().
CommandsHandler ==
    UNCHANGED <<pendingCommands, timers, promise, fired, responses, currentState>>

\* What a client may POST to /xray/__result: {id, result, error} reports.
Report(id, result, error) ==
    [method |-> "POST", json |-> TRUE, size |-> BodySize(result),
     id |-> id, result |-> result, error |-> error]

\* ---------------------------------------------------------------- collector
\* Names and values of registered component state.
Names == {"Counter", "Form"}
States == {"s0", "s1"}
\* Console levels (ConsoleEntry.level) and the levels the model logs with.
Levels == {"log", "warn", "error", "info", "debug"}
LoggedLevels == {"log", "warn"}
\* Correlation ids of network entries; the collector accepts duplicates.
NetIds == {"a", "b"}
\* The partial updates the fetch wrapper passes to updateNetwork: a settled
\* response, and a transport failure (status 0 with an error message); the
\* duration is read off the clock.
Outcomes == {"response", "failure"}

\* DEFAULT_CONFIG
DEFAULT_MAX_CONSOLE_ENTRIES == 100
DEFAULT_MAX_NETWORK_ENTRIES == 50
DEFAULT_MAX_ERRORS == 50
DEFAULT_CONFIG == [maxErrors |-> DEFAULT_MAX_ERRORS,
                   maxConsoleEntries |-> DEFAULT_MAX_CONSOLE_ENTRIES,
                   maxNetworkEntries |-> DEFAULT_MAX_NETWORK_ENTRIES]

\* createCollector(config): cfg = {...DEFAULT_CONFIG, ...config}
Configs == [maxErrors : 1 .. MaxCap, maxConsoleEntries : 1 .. MaxCap,
            maxNetworkEntries : 1 .. MaxCap]

\* trimArray with pop() in place of shift(): the newest entries are dropped.
trimArray_pop(arr, max) == IF Len(arr) > max THEN SubSeq(arr, 1, max) ELSE arr

\* trimArray(arr, max): shift() while arr.length > max
RECURSIVE trimArray(_, _)
trimArray(arr, max) == IF Len(arr) > max THEN trimArray(Tail(arr), max) ELSE arr

\* Object.assign(request, updates)
ObjectAssign(request, updates) ==
    [f \in DOMAIN request \cup DOMAIN updates |->
        IF f \in DOMAIN updates THEN updates[f] ELSE request[f]]

\* networkRequests.find((r) => r.id === id): index of the first match, or 0.
FindIndex(id) ==
    IF \E i \in 1 .. Len(networkRequests) : heap[networkRequests[i]].id = id
    THEN CHOOSE i \in 1 .. Len(networkRequests) :
            /\ heap[networkRequests[i]].id = id
            /\ \A j \in 1 .. i - 1 : heap[networkRequests[j]].id # id
    ELSE 0

\* What a holder of snapshot s reads through it: the network array holds
\* references to the entry objects, read through the heap h.
View(s, h) == [s EXCEPT !.network = [i \in 1 .. Len(s.network) |-> h[s.network[i]]]]

\* The collector after createCollector: every buffer empty.
NoSnapshot == [timestamp |-> 0, url |-> "", route |-> "", title |-> "",
               registered |-> << >>, errors |-> << >>, warnings |-> << >>,
               console |-> << >>, network |-> << >>]
NothingAppended == [errors |-> << >>, warnings |-> << >>, console |-> << >>,
                    network |-> << >>]

\* One collector operation, named name and called with key (and value), is
\* one tick of the clock.
TickWith(name, key, value) ==
    /\ now < MaxOps
    /\ now' = now + 1
    /\ op' = [name |-> name, key |-> key, value |-> value]
Tick(name, key) == TickWith(name, key, "")

\* getState(): a fresh object whose arrays are copies of the buffers; the
\* elements of the copies are the buffered objects themselves.
getState ==
    [timestamp |-> now,
     url |-> "http://localhost/",
     route |-> "/",
     title |-> "app",
     registered |-> registered,
     errors |-> errors,
     warnings |-> warnings,
     console |-> consoleEntries,
     network |-> networkRequests]

\* A caller calls getState() and keeps the snapshot.
GetState ==
    /\ Tick("getState", "")
    /\ UNCHANGED <<hostVars, clientVars, secret, serializerVars, adapterVars, streamVars, pageVars>>
    /\ held' = getState
    /\ heldView' = View(getState, heap)
    /\ UNCHANGED <<cfg, registered, errors, warnings, consoleEntries,
                   networkRequests, heap, appended>>

\* registerState that leaves an existing slot as it is.
registerState_keepFirst(name, state) ==
    /\ TickWith("registerState", name, state)
    /\ UNCHANGED <<hostVars, clientVars, secret, serializerVars, adapterVars, streamVars, pageVars>>
    /\ registered' = [n \in DOMAIN registered \cup {name} |->
          IF n \in DOMAIN registered THEN registered[n]
          ELSE [name |-> name, state |-> state, updatedAt |-> now]]
    /\ UNCHANGED <<cfg, errors, warnings, consoleEntries, networkRequests,
                   heap, appended, held, heldView>>

registerState(name, state) ==
    /\ TickWith("registerState", name, state)
    /\ UNCHANGED <<hostVars, clientVars, secret, serializerVars, adapterVars, streamVars, pageVars>>
    /\ registered' = [n \in DOMAIN registered \cup {name} |->
          IF n = name THEN [name |-> name, state |-> state, updatedAt |-> now]
          ELSE registered[n]]
    /\ UNCHANGED <<cfg, errors, warnings, consoleEntries, networkRequests,
                   heap, appended, held, heldView>>

unregisterState(name) ==
    /\ Tick("unregisterState", name)
    /\ UNCHANGED <<hostVars, clientVars, secret, serializerVars, adapterVars, streamVars, pageVars>>
    /\ registered' = [n \in DOMAIN registered \ {name} |-> registered[n]]
    /\ UNCHANGED <<cfg, errors, warnings, consoleEntries, networkRequests,
                   heap, appended, held, heldView>>

addError(error) ==
    /\ Tick("addError", error.message)
    /\ UNCHANGED <<hostVars, clientVars, secret, serializerVars, adapterVars, streamVars, pageVars>>
    /\ errors' = trimArray(Append(errors, error), cfg.maxErrors)
    /\ appended' = [appended EXCEPT !.errors = Append(@, error)]
    /\ UNCHANGED <<cfg, registered, warnings, consoleEntries, networkRequests,
                   heap, held, heldView>>

\* The body of addConsole: what it does to the collector.
addConsoleEntry(entry) ==
    /\ Tick("addConsole", entry.level)
    /\ consoleEntries' = trimArray(Append(consoleEntries, entry), cfg.maxConsoleEntries)
    /\ IF entry.level = "warn"
       THEN /\ warnings' = trimArray(Append(warnings, entry.message), cfg.maxErrors)
            /\ appended' = [appended EXCEPT !.console = Append(@, entry),
                                            !.warnings = Append(@, entry.message)]
       ELSE /\ warnings' = warnings
            /\ appended' = [appended EXCEPT !.console = Append(@, entry)]
    /\ UNCHANGED <<cfg, registered, errors, networkRequests, heap, held, heldView>>

\* addConsole(entry), called on the collector.
addConsole(entry) ==
    /\ addConsoleEntry(entry)
    /\ UNCHANGED <<hostVars, clientVars, secret, serializerVars, adapterVars, streamVars, pageVars>>

\* The warnings buffer of a collector created with config after addConsole
\* was called with the warn messages of history, in order.
RECURSIVE warningsAfter(_, _)
warningsAfter(config, history) ==
    IF history = << >> THEN << >>
    ELSE trimArray(Append(warningsAfter(config, SubSeq(history, 1, Len(history) - 1)),
                          history[Len(history)]),
                   config.maxErrors)

\* addNetwork(request): the array stores the caller's object itself; ref is
\* the identity of that object.
addNetworkEntry(request) ==
    LET ref == Len(heap) + 1
    IN  /\ Tick("addNetwork", request.id)
        /\ heap' = Append(heap, request)
        /\ networkRequests' = trimArray(Append(networkRequests, ref), cfg.maxNetworkEntries)
        /\ appended' = [appended EXCEPT !.network = Append(@, ref)]
        /\ UNCHANGED <<cfg, registered, errors, warnings, consoleEntries, held, heldView>>

\* addNetwork(request), called on the collector.
addNetwork(request) ==
    /\ addNetworkEntry(request)
    /\ UNCHANGED <<hostVars, clientVars, secret, serializerVars, adapterVars, streamVars, pageVars>>

\* The body of updateNetwork: Object.assign on the first entry with the id.
updateNetworkEntry(id, updates) ==
    /\ Tick("updateNetwork", id)
    /\ IF FindIndex(id) # 0
       THEN heap' = [heap EXCEPT ![networkRequests[FindIndex(id)]] = ObjectAssign(@, updates)]
       ELSE heap' = heap
    /\ UNCHANGED <<cfg, registered, errors, warnings, consoleEntries,
                   networkRequests, appended, held, heldView>>

\* updateNetwork that stores the update as a new entry when no id matches.
updateNetwork_upsert(id, updates) ==
    /\ Tick("updateNetwork", id)
    /\ UNCHANGED <<hostVars, clientVars, secret, serializerVars, adapterVars, streamVars, pageVars>>
    /\ IF FindIndex(id) # 0
       THEN /\ heap' = [heap EXCEPT
                 ![networkRequests[FindIndex(id)]] = ObjectAssign(@, updates)]
            /\ networkRequests' = networkRequests
       ELSE /\ heap' = Append(heap, ObjectAssign([id |-> id], updates))
            /\ networkRequests' = Append(networkRequests, Len(heap) + 1)
    /\ UNCHANGED <<cfg, registered, errors, warnings, consoleEntries,
                   appended, held, heldView>>

\* updateNetwork(id, updates), called on the collector.
updateNetwork(id, updates) ==
    /\ updateNetworkEntry(id, updates)
    /\ UNCHANGED <<hostVars, clientVars, secret, serializerVars, adapterVars, streamVars, pageVars>>


\* clear without networkRequests.length = 0.
clear_keepsNetwork ==
    /\ Tick("clear", "")
    /\ UNCHANGED <<hostVars, clientVars, secret, serializerVars, adapterVars, streamVars, pageVars>>
    /\ registered' = << >>
    /\ errors' = << >>
    /\ warnings' = << >>
    /\ consoleEntries' = << >>
    /\ appended' = [NothingAppended EXCEPT !.network = appended.network]
    /\ UNCHANGED <<cfg, networkRequests, heap, held, heldView>>

clear ==
    /\ Tick("clear", "")
    /\ UNCHANGED <<hostVars, clientVars, secret, serializerVars, adapterVars, streamVars, pageVars>>
    /\ registered' = << >>
    /\ errors' = << >>
    /\ warnings' = << >>
    /\ consoleEntries' = << >>
    /\ networkRequests' = << >>
    /\ appended' = NothingAppended
    /\ UNCHANGED <<cfg, heap, held, heldView>>

\* The records callers hand to the collector: the k-th error, console line
\* and network entry of a run.
ErrorRecord == [message |-> "E" \o ToString(Len(appended.errors)), stack |-> "at f"]
ConsoleRecord(level) ==
    [level |-> level, message |-> "m" \o ToString(Len(appended.console))]
PendingRequest(id) ==
    [id |-> id, url |-> "/api", method |-> "GET", status |-> Null, duration |-> Null,
     timestamp |-> now]
Updates(outcome) ==
    IF outcome = "response"
    THEN [status |-> "200", duration |-> ToString(now)]
    ELSE [status |-> "0", duration |-> ToString(now), error |-> "Failed to fetch"]

\* ------------------------------------------------- callers of the collector
\* What getState() would return now, read through to the entry objects; the
\* timestamp, which differs from call to call, is left out.
Content == [View(getState, heap) EXCEPT !.timestamp = 0]

\* The holder of a snapshot changes one of its arrays (push / shift): the
\* arrays are the copies getState made.
callerEditsArray(kind) ==
    /\ held # NoSnapshot
    /\ Tick("caller", kind)
    /\ UNCHANGED <<hostVars, clientVars, secret, serializerVars, adapterVars, streamVars, pageVars>>
    /\ held' = IF kind = "push"
               THEN [held EXCEPT !.errors = Append(@, [message |-> "forged", stack |-> ""])]
               ELSE [held EXCEPT !.network = IF @ = << >> THEN @ ELSE Tail(@),
                                 !.errors = IF @ = << >> THEN @ ELSE Tail(@)]
    /\ UNCHANGED <<cfg, registered, errors, warnings, consoleEntries, networkRequests,
                   heap, appended, heldView>>

\* The holder deletes the keys of the snapshot's registered mapping: the
\* mapping is the object Object.fromEntries built.
callerEditsRegistered ==
    /\ held # NoSnapshot
    /\ Tick("caller", "delete")
    /\ UNCHANGED <<hostVars, clientVars, secret, serializerVars, adapterVars, streamVars, pageVars>>
    /\ held' = [held EXCEPT !.registered = << >>]
    /\ UNCHANGED <<cfg, registered, errors, warnings, consoleEntries, networkRequests,
                   heap, appended, heldView>>

\* The holder assigns to a field of a network entry it reaches through the
\* snapshot: snapshot.network[i].status = ...; the entry is the object the
\* collector buffers.
callerEditsEntry(i) ==
    /\ i \in 1 .. Len(held.network)
    /\ Tick("caller", "assign")
    /\ UNCHANGED <<hostVars, clientVars, secret, serializerVars, adapterVars, streamVars, pageVars>>
    /\ heap' = [heap EXCEPT ![held.network[i]] = ObjectAssign(@, [status |-> "forged"])]
    /\ UNCHANGED <<cfg, registered, errors, warnings, consoleEntries, networkRequests,
                   appended, held, heldView>>

\* ------------------------------------------------------------ redaction
REDACTED == "[REDACTED]"

\* DEFAULT_INTERCEPT_CONFIG
DEFAULT_MAX_BODY_SIZE == 10240
DEFAULT_INTERCEPT_CONFIG ==
    [captureHeaders |-> TRUE, captureBodies |-> FALSE,
     maxBodySize |-> DEFAULT_MAX_BODY_SIZE,
     redactHeaders |-> <<"authorization", "cookie", "set-cookie", "x-api-key">>,
     redactBodyFields |-> <<"password", "token", "secret", "apiKey", "api_key">>]

\* String.prototype.toLowerCase / toUpperCase on the names the model uses.
toLowerCase(str) ==
    CASE str = "Authorization" -> "authorization"
      [] str = "X-API-KEY" -> "x-api-key"
      [] str = "Accept" -> "accept"
      [] str = "Password" -> "password"
      [] OTHER -> str
toUpperCase(str) ==
    CASE str = "post" -> "POST"
      [] str = "get" -> "GET"
      [] OTHER -> str

\* Array.prototype.includes
includes(list, x) == \E i \in 1 .. Len(list) : list[i] = x

\* redactHeaders that compares the names as they are written.
redactHeaders_caseSensitive(headers, redactList) ==
    [key \in DOMAIN headers |->
        IF includes(redactList, key) THEN REDACTED ELSE headers[key]]

\* redactHeaders(headers, redactList): headers is a Record<string, string>.
redactHeaders(headers, redactList) ==
    LET lowerRedactList == [i \in 1 .. Len(redactList) |-> toLowerCase(redactList[i])]
    IN  [key \in DOMAIN headers |->
            IF includes(lowerRedactList, toLowerCase(key)) THEN REDACTED ELSE headers[key]]

\* JSON values: strings, null, arrays, and objects as their entries in order.
Str(str) == [t |-> "str", s |-> str]
Nul == [t |-> "null"]
Arr(items) == [t |-> "arr", items |-> items]
Obj(entries) == [t |-> "obj", entries |-> entries]
\* A string a body is stored as when it was not parsed: its characters.
Text(chars) == [t |-> "text", raw |-> chars]

\* redactBodyFields(body, redactList)
RECURSIVE redactBodyFields(_, _)
redactBodyFields(body, redactList) ==
    IF body.t = "null" THEN body
    ELSE IF body.t = "arr"
    THEN Arr([i \in 1 .. Len(body.items) |-> redactBodyFields(body.items[i], redactList)])
    ELSE IF body.t = "obj"
    THEN Obj([i \in 1 .. Len(body.entries) |->
                LET key == body.entries[i].key
                    value == body.entries[i].value
                IN  [key |-> key,
                     value |-> IF includes(redactList, key) THEN Str(REDACTED)
                               ELSE IF value.t \in {"obj", "arr"}
                               THEN redactBodyFields(value, redactList)
                               ELSE value]])
    ELSE body

\* JSON.stringify(value) as the sequence of its tokens; the length of a text
\* is the number of its tokens.
RECURSIVE Flatten(_)
Flatten(seqs) == IF seqs = << >> THEN << >> ELSE Head(seqs) \o Flatten(Tail(seqs))
RECURSIVE stringify(_)
stringify(value) ==
    IF value.t = "str" THEN <<value.s>>
    ELSE IF value.t = "null" THEN <<"null">>
    ELSE IF value.t = "arr"
    THEN <<"[">> \o Flatten([i \in 1 .. Len(value.items) |-> stringify(value.items[i])])
               \o <<"]">>
    ELSE <<"{">> \o Flatten([i \in 1 .. Len(value.entries) |->
                        <<value.entries[i].key>> \o stringify(value.entries[i].value)])
               \o <<"}">>

\* The values whose original must not be stored, and the JSON bodies the
\* page and the server send: a denied field at the top (next to a field
\* whose name differs from a denied one in case only), and one inside an
\* object inside an array.
SecretValues == {"hunter2", "letmein"}
LoginBody(p) ==
    Obj(<<[key |-> "password", value |-> Str(p)],
          [key |-> "Password", value |-> Str("shown")],
          [key |-> "items", value |-> Arr(<<Obj(<<[key |-> "token", value |-> Str(p)]>>),
                                            Nul>>)]>>)
TokenBody(p) == Obj(<<[key |-> "token", value |-> Str(p)]>>)
JsonValues == {LoginBody(p) : p \in SecretValues} \cup {TokenBody(p) : p \in SecretValues}

\* JSON.parse(text): the value whose text this is, or a SyntaxError.
JSONparse(text) ==
    IF \E value \in JsonValues : stringify(value) = text
    THEN [ok |-> TRUE, value |-> CHOOSE value \in JsonValues : stringify(value) = text]
    ELSE [ok |-> FALSE, value |-> Nul]

\* String.prototype.slice(0, n)
slice(text, n) == SubSeq(text, 1, IF n < Len(text) THEN n ELSE Len(text))

\* headersToObject(headers): a plain object is copied, a Headers instance
\* is walked with forEach, no headers give {}.
headersToObject(headers) ==
    IF headers.kind = "none" THEN << >>
    ELSE [key \in DOMAIN headers.entries |-> headers.entries[key]]

\* The calls of fetch(input, init) the page makes, p being the value of
\* every denied header and denied body field in them.
CallShapes == {"json", "form", "blob"}
Call(shape, p) ==
    IF shape = "json"
    THEN [url |-> "/login", method |-> "post",
          headers |-> [kind |-> "object",
                       entries |-> [Authorization |-> p, Accept |-> "json"]
                                   @@ ("X-API-KEY" :> p)],
          body |-> [kind |-> "string", text |-> stringify(LoginBody(p))]]
    ELSE IF shape = "form"
    THEN [url |-> "/form", method |-> "post",
          headers |-> [kind |-> "Headers", entries |-> [cookie |-> p]],
          body |-> [kind |-> "URLSearchParams",
                    text |-> <<"password", "=", p, "&", "user", "=", "bob">>]]
    ELSE [url |-> "/upload", method |-> "get",
          headers |-> [kind |-> "none", entries |-> << >>],
          body |-> [kind |-> "Blob", text |-> << >>]]

\* The responses the wrapped fetch gets: response.headers.forEach yields
\* lower-case names; text is response.clone().text().
ResponseShapes == {"json", "broken", "html"}
Response(shape, p) ==
    IF shape = "json"
    THEN [status |-> "200",
          headers |-> [kind |-> "Headers",
                       entries |-> ("content-type" :> "application/json")
                                   @@ ("set-cookie" :> p)],
          text |-> stringify(TokenBody(p))]
    ELSE IF shape = "broken"
    THEN [status |-> "200",
          headers |-> [kind |-> "Headers",
                       entries |-> ("content-type" :> "application/json")],
          text |-> <<"{", "token", p>>]
    ELSE [status |-> "200",
          headers |-> [kind |-> "Headers", entries |-> ("content-type" :> "text/html")],
          text |-> <<"<html>", p>>]

\* What the wrapper stores of a body text: the slice of an over-long text,
\* the redacted value of a JSON text, the text itself otherwise.
capturedBody(text, config) ==
    IF Len(text) > config.maxBodySize THEN Text(slice(text, config.maxBodySize))
    ELSE IF JSONparse(text).ok
    THEN redactBodyFields(JSONparse(text).value, config.redactBodyFields)
    ELSE Text(text)

\* The request object the fetch wrapper builds and hands to addNetwork.
capturedRequest(call, id, config) ==
    LET request == [id |-> id, url |-> call.url, method |-> toUpperCase(call.method),
                    status |-> Null, duration |-> Null, timestamp |-> now]
        withHeaders ==
            IF config.captureHeaders
            THEN ObjectAssign(request,
                    [requestHeaders |-> redactHeaders(headersToObject(call.headers),
                                                      config.redactHeaders)])
            ELSE request
    IN  IF /\ config.captureBodies
           /\ call.body.kind \in {"string", "URLSearchParams"}
           /\ call.body.text # << >>
        THEN ObjectAssign(withHeaders,
                ObjectAssign([requestBody |-> capturedBody(call.body.text, config)],
                             IF Len(call.body.text) > config.maxBodySize
                             THEN [requestBodyTruncated |-> TRUE] ELSE << >>))
        ELSE withHeaders

\* The updates the fetch wrapper hands to updateNetwork for a response.
capturedResponse(response, config) ==
    LET updates == [status |-> response.status, duration |-> ToString(now)]
        withHeaders ==
            IF config.captureHeaders
            THEN ObjectAssign(updates,
                    [responseHeaders |-> redactHeaders(headersToObject(response.headers),
                                                       config.redactHeaders)])
            ELSE updates
    IN  IF /\ config.captureBodies
           /\ response.headers.entries["content-type"] = "application/json"
        THEN ObjectAssign(withHeaders,
                ObjectAssign([responseBody |-> capturedBody(response.text, config)],
                             IF Len(response.text) > config.maxBodySize
                             THEN [responseBodyTruncated |-> TRUE] ELSE << >>))
        ELSE withHeaders

\* --------------------------------------------------------- interceptors
\* The configs setupInterceptors is called with, spread over the defaults:
\* body capture on or off, and a limit below the length of the longer bodies.
SmallBodySize == 4
InterceptConfig(captureHeaders, captureBodies, maxBodySize) ==
    ObjectAssign(DEFAULT_INTERCEPT_CONFIG,
                 [captureHeaders |-> captureHeaders, captureBodies |-> captureBodies,
                  maxBodySize |-> maxBodySize])
BodySizes == {DEFAULT_MAX_BODY_SIZE, SmallBodySize}

\* console[level] and window.fetch are the native implementation, << >>, or
\* the wrapper of an installation around the implementation it replaced;
\* the listeners are the handlers of the installations that added them.
NativeHooks == [console |-> << >>, fetch |-> << >>, error |-> {}, unhandledrejection |-> {}]
Wrapper(n, original) == <<n>> \o original

\* No call of the fetch wrapper has been made.  Of a call: how often it
\* invoked originalFetch, how far it is, what originalFetch settled with
\* and what the wrapper gave its caller.
NoCalls == [id \in NetIds |-> [real |-> 0, state |-> "none", got |-> "", gave |-> ""]]

\* The page before setupInterceptors is called.
PageInit ==
    /\ isIntercepting = FALSE
    /\ cleanupFns = << >>
    /\ hooks = NativeHooks
    /\ icfg = DEFAULT_INTERCEPT_CONFIG
    /\ installed = 0
    /\ handles = {}
    /\ invoked = 0
    /\ pageOp = "none"
    /\ calls = NoCalls

\* The body of setupInterceptors past its two early returns: the wrappers
\* and handlers of installation n, and one cleanup closure for each.
Install(n, captureHeaders, captureBodies, maxBodySize) ==
    /\ icfg' = InterceptConfig(captureHeaders, captureBodies, maxBodySize)
    /\ isIntercepting' = TRUE
    /\ hooks' = [console |-> Wrapper(n, hooks.console),
                 fetch |-> Wrapper(n, hooks.fetch),
                 error |-> hooks.error \cup {n},
                 unhandledrejection |-> hooks.unhandledrejection \cup {n}]
    /\ cleanupFns' = <<[restores |-> "console", original |-> hooks.console],
                       [restores |-> "fetch", original |-> hooks.fetch],
                       [restores |-> "error", original |-> <<n>>],
                       [restores |-> "unhandledrejection", original |-> <<n>>]>>
    /\ installed' = n
    /\ handles' = handles \cup {"teardown"}
    /\ invoked' = invoked
    /\ pageOp' = "setupInterceptors"
    /\ UNCHANGED <<hostVars, clientVars, collectorVars, secret, serializerVars, adapterVars, streamVars, calls>>

\* setupInterceptors without `if (isIntercepting) return`.
setupInterceptors_unguarded(captureHeaders, captureBodies, maxBodySize) ==
    /\ installed < MaxInstalls
    /\ Install(installed + 1, captureHeaders, captureBodies, maxBodySize)

\* setupInterceptors(collector, config) in a browser.  While interceptors
\* are installed it warns, through the console it finds, and returns
\* () => {}.
setupInterceptors(captureHeaders, captureBodies, maxBodySize) ==
    IF isIntercepting
    THEN /\ IF hooks.console # << >>
            THEN addConsoleEntry([level |-> "warn",
                                  message |-> "[xray] Interceptors already set up"])
            ELSE UNCHANGED collectorVars
         /\ handles' = handles \cup {"noop"}
         /\ pageOp' = "setupInterceptors again"
         /\ UNCHANGED <<isIntercepting, cleanupFns, hooks, icfg, installed, invoked, calls>>
         /\ UNCHANGED <<hostVars, clientVars, secret, serializerVars, adapterVars, streamVars>>
    ELSE /\ installed < MaxInstalls
         /\ Install(installed + 1, captureHeaders, captureBodies, maxBodySize)

\* One cleanup closure runs.
RunCleanup(h, fn) ==
    IF fn.restores = "console" THEN [h EXCEPT !.console = fn.original]
    ELSE IF fn.restores = "fetch" THEN [h EXCEPT !.fetch = fn.original]
    ELSE IF fn.restores = "error" THEN [h EXCEPT !.error = @ \ {fn.original[1]}]
    ELSE [h EXCEPT !.unhandledrejection = @ \ {fn.original[1]}]

\* for (const cleanup of cleanupFns) cleanup()
RECURSIVE RunCleanups(_, _)
RunCleanups(h, fns) ==
    IF fns = << >> THEN h ELSE RunCleanups(RunCleanup(h, Head(fns)), Tail(fns))

\* A teardown that leaves isIntercepting set.
teardown_keepsFlag ==
    /\ "teardown" \in handles
    /\ hooks' = RunCleanups(hooks, cleanupFns)
    /\ cleanupFns' = << >>
    /\ pageOp' = "teardown"
    /\ \E n \in 1 .. installed : invoked' = n
    /\ UNCHANGED <<isIntercepting, icfg, installed, handles, calls>>
    /\ UNCHANGED <<hostVars, clientVars, collectorVars, secret, serializerVars, adapterVars, streamVars>>

\* The callable an installing setupInterceptors returned is invoked: it
\* reads the module's cleanupFns, whichever call returned it.
teardown ==
    /\ "teardown" \in handles
    /\ hooks' = RunCleanups(hooks, cleanupFns)
    /\ cleanupFns' = << >>
    /\ isIntercepting' = FALSE
    /\ pageOp' = "teardown"
    /\ \E n \in 1 .. installed : invoked' = n
    /\ UNCHANGED <<icfg, installed, handles, calls>>
    /\ UNCHANGED <<hostVars, clientVars, collectorVars, secret, serializerVars, adapterVars, streamVars>>

\* The () => {} a setupInterceptors call returned while interceptors were
\* installed is invoked.
noopTeardown ==
    /\ "noop" \in handles
    /\ pageOp' = "noop"
    /\ UNCHANGED <<isIntercepting, cleanupFns, hooks, icfg, installed, handles, invoked, calls>>
    /\ UNCHANGED <<hostVars, clientVars, collectorVars, secret, serializerVars, adapterVars, streamVars>>

\* The page calls console[level](...) while a wrapper is in place.
consoleCalled(level) ==
    /\ hooks.console # << >>
    /\ addConsole(ConsoleRecord(level))

\* An error event reaches the window while errorHandler is registered.
errorEvent ==
    /\ hooks.error # {}
    /\ addError(ErrorRecord)

\* An unhandledrejection event reaches the window while rejectionHandler
\* is registered.
rejectionEvent ==
    /\ hooks.unhandledrejection # {}
    /\ addError(ErrorRecord)

\* The ids of the network entry objects made so far.
HeapIds == {heap[i].id : i \in 1 .. Len(heap)}

\* The page calls fetch while the wrapper is in place: the wrapper up to
\* its await.
fetchCalled(shape, p, id) ==
    /\ hooks.fetch # << >>
    /\ id \notin HeapIds
    /\ addNetworkEntry(capturedRequest(Call(shape, p), id, icfg))
    /\ calls' = [calls EXCEPT ![id] = [@ EXCEPT !.real = @ + 1, !.state = "pending"]]
    /\ UNCHANGED <<isIntercepting, cleanupFns, hooks, icfg, installed, handles, invoked, pageOp>>
    /\ UNCHANGED <<hostVars, clientVars, secret, serializerVars, adapterVars, streamVars>>

\* originalFetch resolves: the wrapper after its await records the response
\* and returns it.
fetchResponds(id, shape, p) ==
    /\ calls[id].state = "pending"
    /\ updateNetworkEntry(id, capturedResponse(Response(shape, p), icfg))
    /\ calls' = [calls EXCEPT ![id] = [@ EXCEPT !.state = "returned",
                                                !.got = shape \o ":" \o p,
                                                !.gave = shape \o ":" \o p]]
    /\ UNCHANGED <<isIntercepting, cleanupFns, hooks, icfg, installed, handles, invoked, pageOp>>
    /\ UNCHANGED <<hostVars, clientVars, secret, serializerVars, adapterVars, streamVars>>

\* A catch block that records the failure and returns undefined.
fetchFails_swallows(id) ==
    /\ calls[id].state = "pending"
    /\ updateNetworkEntry(id, Updates("failure"))
    /\ calls' = [calls EXCEPT ![id] = [@ EXCEPT !.state = "returned",
                                                !.got = "Failed to fetch",
                                                !.gave = Undefined]]
    /\ UNCHANGED <<isIntercepting, cleanupFns, hooks, icfg, installed, handles, invoked, pageOp>>
    /\ UNCHANGED <<hostVars, clientVars, secret, serializerVars, adapterVars, streamVars>>

\* originalFetch rejects: the catch block of the wrapper records the
\* failure and throws the error again.
fetchFails(id) ==
    /\ calls[id].state = "pending"
    /\ updateNetworkEntry(id, Updates("failure"))
    /\ calls' = [calls EXCEPT ![id] = [@ EXCEPT !.state = "thrown",
                                                !.got = "Failed to fetch",
                                                !.gave = "Failed to fetch"]]
    /\ UNCHANGED <<isIntercepting, cleanupFns, hooks, icfg, installed, handles, invoked, pageOp>>
    /\ UNCHANGED <<hostVars, clientVars, secret, serializerVars, adapterVars, streamVars>>

\* ------------------------------------------------------------ state push
\* safeSerialize(state) of the injected script followed by JSON.stringify:
\* the text holds the values of the entry objects, not references to them.
safeSerialize(state) == View(state, heap)

\* Length of the JSON text of a snapshot: it grows with the buffered entries.
TextLength(state) ==
    2 + Len(state.errors) + Len(state.warnings) + Len(state.console) + Len(state.network)

\* The status the /xray/__push handler answers request req with.
PushStatus(req) ==
    IF req.method # "POST" THEN 405
    ELSE IF readBodyWithLimit(req.size, DEFAULT_MAX_REQUEST_BODY_SIZE) = "tooLarge" THEN 413
    ELSE IF ~req.json THEN 400
    ELSE 200

\* A handler that merges the pushed body into the stored snapshot.
PushHandler_merges(req) ==
    /\ currentState' = IF PushStatus(req) = 200
                       THEN ObjectAssign(currentState, req.body)
                       ELSE currentState
    /\ UNCHANGED <<pendingCommands, timers, promise, fired, responses>>

\* The /xray/__push handler: currentState = JSON.parse(body).
PushHandler(req) ==
    /\ currentState' = IF PushStatus(req) = 200 THEN req.body ELSE currentState
    /\ UNCHANGED <<pendingCommands, timers, promise, fired, responses>>

\* ------------------------------------------------ the loops' calls of fetch
\* The loops call the global fetch, which is window.fetch: the native
\* implementation, or the wrapper of the installation in place.  The calls
\* of the loops: a GET without init, or a POST with a Content-Type header
\* and a JSON text as body.
LoopRequest(url, method) ==
    [url |-> url, method |-> method,
     headers |-> IF method = "POST"
                 THEN [kind |-> "object",
                       entries |-> ("Content-Type" :> "application/json")]
                 ELSE [kind |-> "none", entries |-> << >>],
     body |-> [kind |-> IF method = "POST" THEN "string" ELSE "none", text |-> << >>]]

\* What the host answers a loop's call with: the handlers set a JSON
\* content type on 200 and 413, none on 400 and 405.
HostResponse(status) ==
    [status |-> ToString(status),
     headers |-> [kind |-> "Headers",
                  entries |-> IF status \in {200, 413}
                              THEN ("content-type" :> "application/json")
                              ELSE << >>],
     text |-> << >>]

\* Math.random().toString(36).slice(2) of the wrapper, for a loop's call:
\* an id no entry made so far has.
DrawnId == "r" \o ToString(Len(heap) + 1)

\* The id under which the wrapper records the call a loop is making, or
\* undefined for a call of the native fetch.
NetOf == IF hooks.fetch # << >> THEN DrawnId ELSE Undefined

\* A wrapper that passes calls to the host on without recording them.
WindowFetch_skipsHost(url, method) ==
    UNCHANGED collectorVars

\* fetch(url, init) of a loop up to its await.  The wrapper is modelled for
\* a configuration without body capture (captureBodies is false by
\* default): the text of a loop's body is not represented.
WindowFetch(url, method) ==
    IF hooks.fetch # << >>
    THEN /\ ~icfg.captureBodies
         /\ addNetworkEntry(capturedRequest(LoopRequest(url, method), DrawnId, icfg))
    ELSE UNCHANGED collectorVars

\* The call recorded under net settles with the host's answer: the wrapper
\* after its await.
FetchAnswered(net, status) ==
    IF net # Undefined
    THEN updateNetworkEntry(net, capturedResponse(HostResponse(status), icfg))
    ELSE UNCHANGED collectorVars

\* The call recorded under net rejects: the catch block of the wrapper.
FetchRejected(net) ==
    IF net # Undefined
    THEN updateNetworkEntry(net, Updates("failure"))
    ELSE UNCHANGED collectorVars

\* The body of pushState() up to its await: a new activation posts the
\* serialized snapshot.
StartPush ==
    /\ pushing' = TRUE
    /\ pushFrames' = Append(pushFrames,
          [method |-> "POST", json |-> TRUE, size |-> TextLength(getState),
           body |-> safeSerialize(getState), net |-> NetOf])
    /\ WindowFetch("/xray/__push", "POST")

\* pushState without `if (pushing) return`.
pushState_unguarded(trigger) ==
    /\ windowCollector
    /\ StartPush
    /\ UNCHANGED <<hostVars, polling, pollFrames, windowCollector, executed,
                   reloaded, secret, serializerVars, adapterVars, streamVars, pageVars>>

\* pushState(), called by setInterval(pushState, 500), by the timeout an
\* error event sets, and by the xray:ready listener.
pushState(trigger) ==
    /\ ~pushing
    /\ windowCollector
    /\ StartPush
    /\ UNCHANGED <<hostVars, polling, pollFrames, windowCollector, executed,
                   reloaded, secret, serializerVars, adapterVars, streamVars, pageVars>>

RemoveAt(seq, i) == SubSeq(seq, 1, i - 1) \o SubSeq(seq, i + 1, Len(seq))

\* The host answers the push of activation i; its finally block runs.
PushAnswered(i) ==
    /\ i \in 1 .. Len(pushFrames)
    /\ PushHandler(pushFrames[i])
    /\ FetchAnswered(pushFrames[i].net, PushStatus(pushFrames[i]))
    /\ pushFrames' = RemoveAt(pushFrames, i)
    /\ pushing' = FALSE
    /\ UNCHANGED <<last, polling, pollFrames, windowCollector, executed, reloaded,
                   secret, serializerVars, adapterVars, streamVars, pageVars>>

\* fetch('/xray/__push') rejects: the catch block ignores it, finally runs.
PushFails(i) ==
    /\ i \in 1 .. Len(pushFrames)
    /\ FetchRejected(pushFrames[i].net)
    /\ pushFrames' = RemoveAt(pushFrames, i)
    /\ pushing' = FALSE
    /\ UNCHANGED <<hostVars,
                   polling, pollFrames, windowCollector, executed, reloaded,
                   secret, serializerVars, adapterVars, streamVars, pageVars>>

\* An adapter mounts: it sets window.__XRAY_COLLECTOR__ and dispatches
\* xray:ready, whose listener is pushState.
MountAdapter ==
    /\ ~windowCollector
    /\ windowCollector' = TRUE
    /\ IF ~pushing THEN StartPush ELSE UNCHANGED <<pushing, pushFrames, collectorVars>>
    /\ UNCHANGED <<hostVars, polling, pollFrames, executed, reloaded, secret, serializerVars, adapterVars, streamVars, pageVars>>

\* The adapter's teardown: window.__XRAY_COLLECTOR__ = null.
UnmountAdapter ==
    /\ windowCollector
    /\ windowCollector' = FALSE
    /\ UNCHANGED <<hostVars, polling, pollFrames, pushing, pushFrames, executed,
                   reloaded, collectorVars, secret, serializerVars, adapterVars, streamVars, pageVars>>

\* ---------------------------------------------------------- command poll
\* pollCommands(), called by setInterval(pollCommands, 100): a new activation
\* fetches /xray/__commands.  window.__XRAY_BROWSER__ is set when the module
\* of the browser utilities is loaded, before any tick.
pollCommands ==
    /\ ~polling
    /\ polling' = TRUE
    /\ pollFrames' = Append(pollFrames,
          [pc |-> "fetch", commands |-> << >>, i |-> 1,
           msg |-> Report(0, NoResult, Undefined), failed |-> FALSE, net |-> NetOf])
    /\ WindowFetch("/xray/__commands", "GET")
    /\ UNCHANGED <<hostVars, pushing, pushFrames, windowCollector, executed,
                   reloaded, secret, serializerVars, adapterVars, streamVars, pageVars>>

\* The finally block of pollCommands for activation f.
EndPoll(f) ==
    /\ pollFrames' = RemoveAt(pollFrames, f)
    /\ polling' = FALSE

\* A listing that names the newest pending command first.
CommandsAnswered_newestFirst(f) ==
    /\ f \in 1 .. Len(pollFrames)
    /\ pollFrames[f].pc = "fetch"
    /\ CommandsHandler
    /\ FetchAnswered(pollFrames[f].net, 200)
    /\ pollFrames' = [pollFrames EXCEPT
          ![f] = [@ EXCEPT !.pc = "loop", !.i = 1,
                     !.commands = [k \in 1 .. Len(pendingCommands) |->
                         getPendingCommands[Len(pendingCommands) + 1 - k]]]]
    /\ UNCHANGED <<last, polling, pushing, pushFrames, windowCollector, executed, reloaded,
                   secret, serializerVars, adapterVars, streamVars, pageVars>>

\* The host answers the fetch of activation f with the pending list.
CommandsAnswered(f) ==
    /\ f \in 1 .. Len(pollFrames)
    /\ pollFrames[f].pc = "fetch"
    /\ CommandsHandler
    /\ FetchAnswered(pollFrames[f].net, 200)
    /\ pollFrames' = [pollFrames EXCEPT
          ![f] = [@ EXCEPT !.pc = "loop", !.commands = getPendingCommands, !.i = 1]]
    /\ UNCHANGED <<last, polling, pushing, pushFrames, windowCollector, executed, reloaded,
                   secret, serializerVars, adapterVars, streamVars, pageVars>>

\* The invocation count after one more invocation; 2 stands for "many".
Count(n) == IF n = 0 THEN 1 ELSE 2

\* One iteration of `for (const cmd of commands)` up to the await of the
\* result POST; past the last command the function ends.  The operation
\* returns a value or throws; JSON.stringify throws on a value it cannot
\* encode (a cycle, a BigInt), which ends the activation in the outer catch.
ExecuteNext(f) ==
    /\ f \in 1 .. Len(pollFrames)
    /\ pollFrames[f].pc = "loop"
    /\ LET fr == pollFrames[f]
           cmd == fr.commands[fr.i]
           send(result, error, failed) ==
               /\ polling' = polling
               /\ pollFrames' = [pollFrames EXCEPT
                     ![f] = [@ EXCEPT !.pc = "post", !.failed = failed,
                                !.msg = Report(cmd.id, result, error),
                                !.net = NetOf]]
               /\ WindowFetch("/xray/__result", "POST")
           end == EndPoll(f) /\ UNCHANGED collectorVars
       IN  IF fr.i > Len(fr.commands)
           THEN end /\ UNCHANGED executed
           ELSE IF cmd.command \in XRAY_BROWSER
           THEN /\ executed' = [executed EXCEPT ![cmd.id] = Count(@)]
                /\ \/ \E k \in ResultKinds : send(Result(k), Undefined, FALSE)
                   \/ \E m \in ThrownMessages : send(NoResult, m, TRUE)
                   \/ end
           ELSE /\ executed' = executed
                /\ send(NoResult, NotFoundMessage(cmd.command), TRUE)
    /\ UNCHANGED <<hostVars, pushing, pushFrames, windowCollector, reloaded,
                   secret, serializerVars, adapterVars, streamVars, pageVars>>

\* The host answers the result POST of activation f; the loop goes on.
ResultAnswered(f) ==
    /\ f \in 1 .. Len(pollFrames)
    /\ pollFrames[f].pc = "post"
    /\ ResultHandler(pollFrames[f].msg)
    /\ FetchAnswered(pollFrames[f].net, ResultStatus(pollFrames[f].msg))
    /\ pollFrames' = [pollFrames EXCEPT ![f] = [@ EXCEPT !.pc = "loop", !.i = @ + 1]]
    /\ UNCHANGED <<last, polling, pushing, pushFrames, windowCollector, executed, reloaded,
                   secret, serializerVars, adapterVars, streamVars, pageVars>>

\* The failure path without the finally block: the activation ends and the
\* flag stays set.
PollFails_keepsFlag(f) ==
    /\ f \in 1 .. Len(pollFrames)
    /\ pollFrames[f].pc \in {"fetch", "post"}
    /\ FetchRejected(pollFrames[f].net)
    /\ pollFrames' = RemoveAt(pollFrames, f)
    /\ polling' = polling
    /\ UNCHANGED <<hostVars,
                   pushing, pushFrames, windowCollector, executed, reloaded,
                   secret, serializerVars, adapterVars, streamVars, pageVars>>

\* An outbound call of activation f rejects, or the list is answered with
\* something res.json() throws on (an error page): the outer catch ignores
\* it and the finally block runs.
PollFails(f) ==
    /\ f \in 1 .. Len(pollFrames)
    /\ pollFrames[f].pc \in {"fetch", "post"}
    /\ \/ FetchRejected(pollFrames[f].net)
       \/ /\ pollFrames[f].pc = "fetch"
          /\ FetchAnswered(pollFrames[f].net, 500)
    /\ EndPoll(f)
    /\ UNCHANGED <<hostVars,
                   pushing, pushFrames, windowCollector, executed, reloaded,
                   secret, serializerVars, adapterVars, streamVars, pageVars>>

\* The page reloaded: every activation of the old runtime is gone and the
\* script starts again with both flags false; the host keeps its table.
Reload ==
    /\ reloaded' = TRUE
    /\ pollFrames' = << >>
    /\ pushFrames' = << >>
    /\ polling' = FALSE
    /\ pushing' = FALSE
    /\ windowCollector' = FALSE
    /\ UNCHANGED <<hostVars,
                   executed, collectorVars, secret, serializerVars, adapterVars, streamVars, pageVars>>

\* A POST to /xray/__result from anywhere: a second tab, a repeated or a
\* late delivery, a request that is no POST or carries no JSON.
RequestKinds == ResultKinds \cup {"boom", "empty", "GET", "text"}
ResultRequest(id, kind) ==
    IF kind \in ResultKinds THEN Report(id, Result(kind), Undefined)
    ELSE IF kind = "boom" THEN Report(id, NoResult, "boom")
    ELSE IF kind = "empty" THEN Report(id, NoResult, "")
    ELSE IF kind = "GET" THEN [Report(id, NoResult, Undefined) EXCEPT !.method = "GET"]
    ELSE [Report(id, NoResult, Undefined) EXCEPT !.json = FALSE]

PostResult(id, kind) ==
    LET req == ResultRequest(id, kind)
    IN  /\ ResultHandler(req)
        /\ last' = [op |-> "result", req |-> req, status |-> ResultStatus(req),
                    wasPending |-> MapHas(pendingCommands, req.id), listing |-> << >>]
        /\ UNCHANGED <<clientVars, collectorVars, secret, serializerVars, adapterVars, streamVars, pageVars>>

\* A GET of /xray/__commands from anywhere.
GetCommands ==
    /\ CommandsHandler
    /\ last' = [op |-> "commands", req |-> << >>, status |-> 200, wasPending |-> FALSE,
                listing |-> getPendingCommands]
    /\ UNCHANGED <<clientVars, collectorVars, secret, serializerVars, adapterVars, streamVars, pageVars>>

\* ------------------------------------------------- endpoints and the secret
\* The values the secret option takes, and the X-Xray-Secret header and
\* ?secret= query parameter of a request: a header that is not sent reads
\* undefined, searchParams.get of a parameter that is not sent returns null.
Secrets == {Undefined, "", "s3cret"}
Credentials == {<<Undefined, Null>>, <<"s3cret", Null>>, <<"wrong", "s3cret">>,
                <<"wrong", Null>>}

\* checkAuth(req, configuredSecret).
checkAuth(header, query, configuredSecret) ==
    IF ~Truthy(configuredSecret) THEN TRUE
    ELSE IF header = configuredSecret THEN TRUE
    ELSE IF query = configuredSecret THEN TRUE
    ELSE FALSE

\* The answer to a request that carried header and query: whether one of
\* the two is the configured secret, the status, and the snapshot or the
\* command listing the body holds (req: the request, where a claim needs
\* it).  turn alternates, so that two equal requests in a row are two answers.
\* verdict: what evaluateAssertion gave, for /xray/assert.
NoVerdict == [none |-> TRUE]
Answer(name, header, query, status) ==
    [op |-> name, matching |-> secret \in {header, query}, status |-> status,
     turn |-> IF "turn" \in DOMAIN last THEN ~last.turn ELSE TRUE,
     snapshot |-> NoSnapshot, listing |-> << >>, req |-> << >>, verdict |-> NoVerdict]

\* sendUnauthorized(res).
sendUnauthorized(name, header, query) ==
    /\ last' = Answer(name, header, query, 401)
    /\ UNCHANGED <<pendingCommands, timers, promise, fired, responses, currentState>>

\* Bodies posted to /xray/__push: JSON objects with different sets of
\* fields, then a GET, a body that is no JSON, and a body over the limit.
\* JSON values besides strings, null, arrays and objects, and the snapshots
\* of a page pushed for the assertions: one of an application at rest (a
\* component with nested state, a finished and a pending request), one of
\* an application in trouble (errors, failed requests, no component).
Num(n) == [t |-> "num", n |-> n]
Bool(b) == [t |-> "bool", b |-> b]
AppSnapshot ==
    [timestamp |-> 4, url |-> "http://localhost/dashboard", route |-> "/dashboard",
     title |-> "t",
     registered |->
         ("Counter" :>
             [name |-> "Counter", updatedAt |-> 1,
              state |-> Obj(<<[key |-> "count", value |-> Num(5)],
                              [key |-> "name", value |-> Str("")],
                              [key |-> "state", value |-> Num(5)],
                              [key |-> "user",
                               value |-> Obj(<<[key |-> "name", value |-> Str("x")]>>)]>>)]),
     errors |-> << >>, warnings |-> << >>, console |-> << >>,
     network |-> <<[id |-> "a", url |-> "/api", method |-> "GET", status |-> "200",
                    duration |-> 1, timestamp |-> 1],
                   [id |-> "b", url |-> "/api", method |-> "GET", status |-> Null,
                    duration |-> Null, timestamp |-> 2]>>]
FailingSnapshot ==
    [timestamp |-> 5, url |-> "http://localhost/login", route |-> "/login",
     title |-> "t", registered |-> << >>,
     errors |-> <<[message |-> "E0", stack |-> "at f"], [message |-> "E1", stack |-> "at f"]>>,
     warnings |-> << >>, console |-> << >>,
     network |-> <<[id |-> "a", url |-> "/api", method |-> "GET", status |-> "500",
                    duration |-> 1, timestamp |-> 1],
                   [id |-> "b", url |-> "/api", method |-> "GET", status |-> Null,
                    duration |-> Null, timestamp |-> 2],
                   [id |-> "c", url |-> "/api", method |-> "GET", status |-> "404",
                    duration |-> 1, timestamp |-> 3]>>]
PushKinds == {"full", "bare", "titled", "app", "GET", "text", "huge"}
PushBody(kind) ==
    IF kind = "bare" THEN [timestamp |-> 2, url |-> "/b"]
    ELSE IF kind = "app" THEN AppSnapshot
    ELSE IF kind = "failing" THEN FailingSnapshot
    ELSE IF kind = "titled" THEN [timestamp |-> 3, title |-> "t", errors |-> << >>]
    ELSE [NoSnapshot EXCEPT !.timestamp = 1, !.url = "/a", !.errors = <<"boom">>]
AssertKinds == {"bare", "app", "failing"}
PushRequest(kind) ==
    [method |-> IF kind = "GET" THEN "GET" ELSE "POST",
     json |-> kind # "text",
     size |-> IF kind = "huge" THEN DEFAULT_MAX_REQUEST_BODY_SIZE + 1 ELSE 2,
     body |-> PushBody(kind)]

\* POST /xray/__push from anywhere: the handler does not call checkAuth.
PushEndpoint(header, query, kind) ==
    LET req == PushRequest(kind)
    IN  /\ PushHandler(req)
        /\ last' = [Answer("push", header, query, PushStatus(req)) EXCEPT !.req = req]
        /\ UNCHANGED <<clientVars, collectorVars, secret, serializerVars, adapterVars, streamVars, pageVars>>

\* GET /xray/__commands from anywhere: the handler does not call checkAuth.
CommandsEndpoint(header, query) ==
    /\ CommandsHandler
    /\ last' = [Answer("commands", header, query, 200) EXCEPT !.listing = getPendingCommands]
    /\ UNCHANGED <<clientVars, collectorVars, secret, serializerVars, adapterVars, streamVars, pageVars>>

\* POST /xray/__result from anywhere: the handler does not call checkAuth.
ResultEndpoint(header, query, id, kind) ==
    LET req == ResultRequest(id, kind)
    IN  /\ ResultHandler(req)
        /\ last' = Answer("result", header, query, ResultStatus(req))
        /\ UNCHANGED <<clientVars, collectorVars, secret, serializerVars, adapterVars, streamVars, pageVars>>

\* GET /xray/state: the snapshot, or an error object while there is none
\* (the host starts with currentState = null, which is NoSnapshot here).
StateEndpoint(header, query) ==
    /\ IF ~checkAuth(header, query, secret)
       THEN sendUnauthorized("state", header, query)
       ELSE /\ last' = [Answer("state", header, query, 200) EXCEPT !.snapshot = currentState]
            /\ UNCHANGED <<pendingCommands, timers, promise, fired, responses, currentState>>
    /\ UNCHANGED <<clientVars, collectorVars, secret, serializerVars, adapterVars, streamVars, pageVars>>

\* The handler forgets the snapshot instead.
ClearEndpoint_forgets(header, query) ==
    /\ IF ~checkAuth(header, query, secret)
       THEN sendUnauthorized("clear", header, query)
       ELSE /\ last' = Answer("clear", header, query, 200)
            /\ currentState' = NoSnapshot
            /\ UNCHANGED <<pendingCommands, timers, promise, fired, responses>>
    /\ UNCHANGED <<clientVars, collectorVars, secret, serializerVars, adapterVars, streamVars, pageVars>>

\* A /xray/clear that empties the buffers of the client's collector too.
ClearEndpoint_reachesClient(header, query) ==
    /\ IF ~checkAuth(header, query, secret)
       THEN sendUnauthorized("clear", header, query)
       ELSE /\ last' = Answer("clear", header, query, 200)
            /\ currentState' =
                  IF currentState # NoSnapshot
                  THEN ObjectAssign(currentState, NothingAppended)
                  ELSE currentState
            /\ UNCHANGED <<pendingCommands, timers, promise, fired, responses>>
    /\ errors' = << >> /\ warnings' = << >> /\ consoleEntries' = << >>
    /\ networkRequests' = << >>
    /\ UNCHANGED <<cfg, registered, heap, now, appended, op, held, heldView>>
    /\ UNCHANGED <<clientVars, secret, serializerVars, adapterVars, streamVars, pageVars>>

\* GET /xray/clear: empties the four arrays of the stored snapshot in place.
ClearEndpoint(header, query) ==
    /\ IF ~checkAuth(header, query, secret)
       THEN sendUnauthorized("clear", header, query)
       ELSE /\ last' = Answer("clear", header, query, 200)
            /\ currentState' =
                  IF currentState # NoSnapshot
                  THEN ObjectAssign(currentState, NothingAppended)
                  ELSE currentState
            /\ UNCHANGED <<pendingCommands, timers, promise, fired, responses>>
    /\ UNCHANGED <<clientVars, collectorVars, secret, serializerVars, adapterVars, streamVars, pageVars>>

\* A command-backed endpoint (/xray/dom, /xray/functions) from its first
\* line: checkAuth, then queueCommand; the answer follows when the promise
\* settles (status 0: none yet).
SecuredCommandEndpoint(header, query, command, id) ==
    /\ IF ~checkAuth(header, query, secret)
       THEN sendUnauthorized("command", header, query)
       ELSE /\ id \in Ids \ UsedIds
            /\ queueCommand(command, ArgsOf(command), id)
            /\ last' = Answer("command", header, query, 0)
            /\ UNCHANGED currentState
    /\ UNCHANGED <<clientVars, collectorVars, secret, serializerVars, adapterVars, streamVars, pageVars>>

\* ------------------------------------------------------------ serializer

\* DEFAULT_OPTIONS
DEFAULT_OPTIONS == [maxDepth |-> 10, maxLength |-> 0]

\* The values safeSerialize is given: objects held by reference, each a plain
\* object (its own enumerable keys in Object.keys order) or an array, whose
\* properties are strings, references to objects, or accessors whose read
\* throws new Error('boom').
ObjIds == {1, 2, 3}
KeyNames == <<"a", "b">>
MaxObjects == Cardinality(ObjIds)
MaxKeys == Len(KeyNames)
Lit(s) == [lit |-> s]
Ref(o) == [ref |-> o]
Getter == [getter |-> "boom"]
SlotValues == {Lit("x"), Getter} \cup {Ref(o) : o \in ObjIds}
EmptyGraph == [o \in ObjIds |-> [array |-> FALSE, props |-> << >>]]
RECURSIVE PropCount(_, _)
PropCount(g, o) == IF o = 0 THEN 0 ELSE Len(g[o].props) + PropCount(g, o - 1)

\* The characters of the strings the serializer writes; any other string of
\* the model is one character long.
Spelling ==
    ("[Circular]" :> <<"[", "C", "i", "r", "c", "u", "l", "a", "r", "]">>) @@
    ("[Max Depth Exceeded]" :> <<"[", "M", "a", "x", " ", "D", "e", "p", "t", "h", " ", "E", "x", "c", "e", "e", "d", "e", "d", "]">>) @@
    ("[Unserializable]" :> <<"[", "U", "n", "s", "e", "r", "i", "a", "l", "i", "z", "a", "b", "l", "e", "]">>) @@
    ("...[truncated]" :> <<".", ".", ".", "[", "t", "r", "u", "n", "c", "a", "t", "e", "d", "]">>) @@
    ("[Serialization Error: " :> <<"[", "S", "e", "r", "i", "a", "l", "i", "z", "a", "t", "i", "o", "n", " ", "E", "r", "r", "o", "r", ":", " ">>) @@
    ("null" :> <<"n", "u", "l", "l">>) @@
    ("boom" :> <<"b", "o", "o", "m">>)
Chars(s) == IF s \in DOMAIN Spelling THEN Spelling[s] ELSE <<s>>

\* JSON.stringify(processed), character by character.
RECURSIVE Join(_)
Join(texts) ==
    IF texts = << >> THEN << >>
    ELSE IF Len(texts) = 1 THEN texts[1]
    ELSE texts[1] \o <<",">> \o Join(Tail(texts))
Quoted(s) == <<"\"">> \o Chars(s) \o <<"\"">>
RECURSIVE JSONstringify(_)
JSONstringify(value) ==
    IF value.t = "str" THEN Quoted(value.s)
    ELSE IF value.t = "null" THEN Chars("null")
    ELSE IF value.t = "arr"
    THEN <<"[">> \o Join([i \in 1 .. Len(value.items) |-> JSONstringify(value.items[i])])
               \o <<"]">>
    ELSE <<"{">> \o Join([i \in 1 .. Len(value.entries) |->
                     Quoted(value.entries[i].key) \o <<":">>
                         \o JSONstringify(value.entries[i].value)])
               \o <<"}">>

\* What one activation of serialize hands back: the value it returns or the
\* error it throws, with the WeakSet `seen` as it leaves it. `visits` lists
\* the activations that reached the seen.has(val) test, in order: where in
\* the input (the path of property positions from the root, whose length
\* is `depth`), which object, and what was returned for it.
Returned(value, w) ==
    [threw |-> FALSE, value |-> value, seen |-> w.seen, visits |-> w.visits]
Thrown(w) == [threw |-> TRUE, value |-> Nul, seen |-> w.seen, visits |-> w.visits]
Visit(path, o, gave) == [at |-> path, obj |-> o, gave |-> gave]

RECURSIVE serialize(_, _, _, _, _)
RECURSIVE serialize_prunes(_, _, _, _, _)
RECURSIVE mapItems(_, _, _, _, _, _, _)
RECURSIVE mapItems_sameDepth(_, _, _, _, _, _, _)
RECURSIVE eachKey(_, _, _, _, _, _, _)
RECURSIVE eachKey_rethrows(_, _, _, _, _, _, _)

\* seen.delete(val) after the children were processed.
serialize_prunes(g, maxDepth, val, path, w) ==
    IF Len(path) > maxDepth THEN Returned(Str("[Max Depth Exceeded]"), w)
    ELSE IF "lit" \in DOMAIN val
    THEN Returned(IF val.lit \in {Null, Undefined} THEN Nul ELSE Str(val.lit), w)
    ELSE LET o == val.ref
         IN  IF o \in w.seen
             THEN Returned(Str("[Circular]"),
                           [w EXCEPT !.visits = Append(@, Visit(path, o, "[Circular]"))])
             ELSE LET v == [seen |-> w.seen \cup {o},
                            visits |-> Append(w.visits, Visit(path, o, "expanded"))]
                      r == IF g[o].array THEN mapItems(g, maxDepth, o, 1, path, v, << >>)
                           ELSE eachKey(g, maxDepth, o, 1, path, v, << >>)
                  IN  [r EXCEPT !.seen = @ \ {o}]

\* const serialize = (val, depth) => ...: the depth limit, the primitives,
\* then the objects: one that is in `seen` gives '[Circular]', any other is
\* added to `seen` (and never removed) before its items or keys are walked.
serialize(g, maxDepth, val, path, w) ==
    IF Len(path) > maxDepth THEN Returned(Str("[Max Depth Exceeded]"), w)
    ELSE IF "lit" \in DOMAIN val
    THEN Returned(IF val.lit \in {Null, Undefined} THEN Nul ELSE Str(val.lit), w)
    ELSE LET o == val.ref
         IN  IF o \in w.seen
             THEN Returned(Str("[Circular]"),
                           [w EXCEPT !.visits = Append(@, Visit(path, o, "[Circular]"))])
             ELSE LET v == [seen |-> w.seen \cup {o},
                            visits |-> Append(w.visits, Visit(path, o, "expanded"))]
                  IN  IF g[o].array THEN mapItems(g, maxDepth, o, 1, path, v, << >>)
                      ELSE eachKey(g, maxDepth, o, 1, path, v, << >>)

\* serialize(item, depth) for the items of an array.
mapItems_sameDepth(g, maxDepth, o, i, path, w, items) ==
    IF i > Len(g[o].props) THEN Returned(Arr(items), w)
    ELSE LET item == g[o].props[i]
         IN  IF "getter" \in DOMAIN item THEN Thrown(w)
             ELSE LET r == serialize(g, maxDepth, item, path, w)
                  IN  IF r.threw THEN r
                      ELSE mapItems(g, maxDepth, o, i + 1, path,
                                    [seen |-> r.seen, visits |-> r.visits],
                                    Append(items, r.value))

\* val.map((item) => serialize(item, depth + 1)), from item i on: an item
\* whose read or whose serialization throws ends the walk with that error.
mapItems(g, maxDepth, o, i, path, w, items) ==
    IF i > Len(g[o].props) THEN Returned(Arr(items), w)
    ELSE LET item == g[o].props[i]
         IN  IF "getter" \in DOMAIN item THEN Thrown(w)
             ELSE LET r == serialize(g, maxDepth, item, Append(path, i), w)
                  IN  IF r.threw THEN r
                      ELSE mapItems(g, maxDepth, o, i + 1, path,
                                    [seen |-> r.seen, visits |-> r.visits],
                                    Append(items, r.value))

\* The loop over the keys without its try / catch.
eachKey_rethrows(g, maxDepth, o, i, path, w, entries) ==
    IF i > Len(g[o].props) THEN Returned(Obj(entries), w)
    ELSE LET propValue == g[o].props[i]
             r == IF "getter" \in DOMAIN propValue THEN Thrown(w)
                  ELSE serialize(g, maxDepth, propValue, Append(path, i), w)
         IN  IF r.threw THEN r
             ELSE eachKey(g, maxDepth, o, i + 1, path,
                          [seen |-> r.seen, visits |-> r.visits],
                          Append(entries, [key |-> KeyNames[i], value |-> r.value]))

\* for (const key of Object.keys(val)) { try { result[key] = serialize(val[key],
\* depth + 1) } catch { result[key] = '[Unserializable]' } }, from key i on.
eachKey(g, maxDepth, o, i, path, w, entries) ==
    IF i > Len(g[o].props) THEN Returned(Obj(entries), w)
    ELSE LET propValue == g[o].props[i]
             r == IF "getter" \in DOMAIN propValue THEN Thrown(w)
                  ELSE serialize(g, maxDepth, propValue, Append(path, i), w)
         IN  eachKey(g, maxDepth, o, i + 1, path,
                     [seen |-> r.seen, visits |-> r.visits],
                     Append(entries,
                            [key |-> KeyNames[i],
                             value |-> IF r.threw THEN Str("[Unserializable]")
                                       ELSE r.value]))

\* The string safeSerialize hands back, given the outcome of serialize(value, 0).
\* The truncated text without the '...[truncated]' behind it.
resultText_noMarker(r, maxLength) ==
    IF r.threw THEN Chars("[Serialization Error: ") \o Chars("boom") \o <<"]">>
    ELSE LET result == JSONstringify(r.value)
         IN  IF maxLength > 0 /\ Len(result) > maxLength
             THEN slice(result, maxLength)
             ELSE result

\* let result = JSON.stringify(processed), cut to maxLength characters with
\* '...[truncated]' behind them when it is longer and maxLength > 0; the
\* outer catch gives `[Serialization Error: ${error.message}]`.
resultText(r, maxLength) ==
    IF r.threw THEN Chars("[Serialization Error: ") \o Chars("boom") \o <<"]">>
    ELSE LET result == JSONstringify(r.value)
         IN  IF maxLength > 0 /\ Len(result) > maxLength
             THEN slice(result, maxLength) \o Chars("...[truncated]")
             ELSE result

\* No call of safeSerialize has been made.
NotSerialized == [called |-> FALSE]
SerializerIdle == graph = EmptyGraph /\ serialized = NotSerialized

\* A caller builds the value: obj[key] = value on a plain object, arr.push(value)
\* on an array, Object.defineProperty for an accessor that throws.
setProperty(o, value) ==
    /\ serialized = NotSerialized
    /\ Len(graph[o].props) < MaxKeys
    /\ PropCount(graph, MaxObjects) < MaxProps
    /\ graph' = [graph EXCEPT ![o].props = Append(@, value)]
    /\ UNCHANGED serialized
    /\ UNCHANGED <<hostVars, clientVars, collectorVars, secret, adapterVars, streamVars, pageVars>>

\* The caller makes the object an array: const arr = [].
newArray(o) ==
    /\ serialized = NotSerialized
    /\ graph[o].props = << >>
    /\ ~graph[o].array
    /\ graph' = [graph EXCEPT ![o].array = TRUE]
    /\ UNCHANGED serialized
    /\ UNCHANGED <<hostVars, clientVars, collectorVars, secret, adapterVars, streamVars, pageVars>>

\* safeSerialize(value, {maxDepth, maxLength}) for the value object 1 is:
\* serialize(value, 0) with an empty `seen`, then the text. No path lets
\* an error leave the function. A run makes one call.
callSafeSerialize(maxDepth, maxLength) ==
    /\ serialized = NotSerialized
    /\ LET r == serialize(graph, maxDepth, Ref(1), << >>, [seen |-> {}, visits |-> << >>])
       IN  serialized' = [called |-> TRUE,
                          maxDepth |-> maxDepth, maxLength |-> maxLength,
                          threw |-> r.threw, processed |-> r.value,
                          seen |-> r.seen, visits |-> r.visits,
                          text |-> resultText(r, maxLength)]
    /\ UNCHANGED graph
    /\ UNCHANGED <<hostVars, clientVars, collectorVars, secret, adapterVars, streamVars, pageVars>>

\* ------------------------------------------------------ assertion evaluator

\* undefined, and a member a plain object inherits from Object.prototype.
Undef == [t |-> "undefined"]
Inherited(name) == [t |-> "function", name |-> name]
ObjectPrototype == {"constructor", "toString", "hasOwnProperty", "valueOf"}

\* The query strings of GET /xray/assert the model sends, and for each the
\* object Object.fromEntries(url.searchParams.entries()) makes of it: its
\* keys in order, with their values.
Param(key, value) == [key |-> key, value |-> value]
Forms ==
    {"errors=empty", "errors=empty&route=/other", "errors=none&route=/dashboard",
     "component=Counter", "component=Counter&state.count=5",
     "component=Counter&state.count=6&state.user.name=y",
     "component=Counter&state.user.name=x&route=/other",
     "component=Counter&state.name=", "component=Counter&state.state=5",
     "component=Missing&state.count=5", "component=constructor",
     "route=/dashboard", "route=/other", "route=/dashboard&network&status=5xx",
     "network&status=5xx", "network&status=500", "network&status=4xx",
     "network&status=404", "network&status=2xx", "network&status=200",
     "network&status=5(", "network", "bogus=1"}
Params(form) ==
    IF form = "errors=empty" THEN <<Param("errors", "empty")>>
    ELSE IF form = "errors=empty&route=/other"
    THEN <<Param("errors", "empty"), Param("route", "/other")>>
    ELSE IF form = "errors=none&route=/dashboard"
    THEN <<Param("errors", "none"), Param("route", "/dashboard")>>
    ELSE IF form = "component=Counter" THEN <<Param("component", "Counter")>>
    ELSE IF form = "component=Counter&state.count=5"
    THEN <<Param("component", "Counter"), Param("state.count", "5")>>
    ELSE IF form = "component=Counter&state.count=6&state.user.name=y"
    THEN <<Param("component", "Counter"), Param("state.count", "6"),
           Param("state.user.name", "y")>>
    ELSE IF form = "component=Counter&state.user.name=x&route=/other"
    THEN <<Param("component", "Counter"), Param("state.user.name", "x"),
           Param("route", "/other")>>
    ELSE IF form = "component=Counter&state.name="
    THEN <<Param("component", "Counter"), Param("state.name", "")>>
    ELSE IF form = "component=Counter&state.state=5"
    THEN <<Param("component", "Counter"), Param("state.state", "5")>>
    ELSE IF form = "component=Missing&state.count=5"
    THEN <<Param("component", "Missing"), Param("state.count", "5")>>
    ELSE IF form = "component=constructor" THEN <<Param("component", "constructor")>>
    ELSE IF form = "route=/dashboard" THEN <<Param("route", "/dashboard")>>
    ELSE IF form = "route=/other" THEN <<Param("route", "/other")>>
    ELSE IF form = "route=/dashboard&network&status=5xx"
    THEN <<Param("route", "/dashboard"), Param("network", ""), Param("status", "5xx")>>
    ELSE IF form \in {"network&status=5xx", "network&status=500", "network&status=4xx",
                      "network&status=404", "network&status=2xx", "network&status=200",
                      "network&status=5("}
    THEN <<Param("network", ""),
           Param("status",
                 IF form = "network&status=5xx" THEN "5xx"
                 ELSE IF form = "network&status=500" THEN "500"
                 ELSE IF form = "network&status=4xx" THEN "4xx"
                 ELSE IF form = "network&status=404" THEN "404"
                 ELSE IF form = "network&status=2xx" THEN "2xx"
                 ELSE IF form = "network&status=200" THEN "200"
                 ELSE "5(")>>
    ELSE IF form = "network" THEN <<Param("network", "")>>
    ELSE <<Param("bogus", "1")>>

\* 'key' in params, and params[key] (undefined when it is not there).
In(key, params) == \E i \in 1 .. Len(params) : params[i].key = key
ParamOf(params, key) ==
    IF In(key, params)
    THEN (CHOOSE entry \in {params[i] : i \in 1 .. Len(params)} : entry.key = key).value
    ELSE Undefined

\* The characters of the strings the evaluator takes apart, and the parts
\* of the parameter names that begin with 'state.'.
Letters ==
    ("5xx" :> <<"5", "x", "x">>) @@ ("4xx" :> <<"4", "x", "x">>) @@
    ("2xx" :> <<"2", "x", "x">>) @@ ("500" :> <<"5", "0", "0">>) @@
    ("404" :> <<"4", "0", "4">>) @@ ("200" :> <<"2", "0", "0">>) @@
    ("5(" :> <<"5", "(">>) @@ ("0" :> <<"0">>)
Digits == {"0", "1", "2", "3", "4", "5", "6", "7", "8", "9"}
Segments ==
    ("state" :> <<"state">>) @@ ("state.count" :> <<"state", "count">>) @@
    ("state.name" :> <<"state", "name">>) @@ ("state.state" :> <<"state", "state">>) @@
    ("state.user.name" :> <<"state", "user", "name">>)

\* Number(str) where it is not NaN.
NumberOf == ("5" :> 5) @@ ("6" :> 6) @@ ("1" :> 1) @@ ("" :> 0)

\* parseValue(str)
parseValue(str) ==
    IF str = "true" THEN Bool(TRUE)
    ELSE IF str = "false" THEN Bool(FALSE)
    ELSE IF str = "null" THEN Nul
    ELSE IF str = "undefined" THEN Undef
    ELSE IF str \in DOMAIN NumberOf THEN Num(NumberOf[str])
    ELSE Str(str)

\* current[part] for an object JSON.parse made.
Member(current, part) ==
    IF \E i \in 1 .. Len(current.entries) : current.entries[i].key = part
    THEN (CHOOSE entry \in {current.entries[i] : i \in 1 .. Len(current.entries)} :
              entry.key = part).value
    ELSE IF part \in ObjectPrototype THEN Inherited(part)
    ELSE Undef

\* getNestedValue(obj, path), the path given by its parts: the loop from
\* part i on.
RECURSIVE walkParts(_, _, _)
walkParts(current, parts, i) ==
    IF i > Len(parts) THEN current
    ELSE IF current.t \in {"null", "undefined"} THEN Undef
    ELSE IF current.t \notin {"obj", "arr"} THEN Undef
    ELSE walkParts(Member(current, parts[i]), parts, i + 1)
getNestedValue(obj, parts) ==
    IF parts = <<"state">> \/ parts = << >> THEN obj
    ELSE walkParts(obj, parts, 1)

\* key.replace('state.', '') of a key of the stateChecks, in parts: a key
\* that starts with 'state.' loses it, the key 'state' is left as it is.
PathOf(key) == IF Len(Segments[key]) > 1 THEN Tail(Segments[key]) ELSE Segments[key]

\* actual !== expectedValue: objects and functions are equal to no literal.
StrictlyEqual(actual, expectedValue) ==
    /\ actual.t \in {"str", "num", "bool", "null", "undefined"}
    /\ actual = expectedValue

\* state.registered[componentName] for the object JSON.parse made.
RegisteredAs(state, componentName) ==
    IF componentName \in DOMAIN state.registered THEN state.registered[componentName]
    ELSE IF componentName \in ObjectPrototype THEN Inherited(componentName)
    ELSE Undef

\* status.replace('xx', '\\d\\d'), new RegExp(`^${statusPattern}$`) (which
\* throws a SyntaxError for a pattern that is no regular expression) and
\* regex.test(text).
replaceXX(chars) ==
    IF \E i \in 1 .. Len(chars) - 1 : chars[i] = "x" /\ chars[i + 1] = "x"
    THEN LET i == CHOOSE k \in 1 .. Len(chars) - 1 :
                     /\ chars[k] = "x" /\ chars[k + 1] = "x"
                     /\ \A j \in 1 .. k - 1 : ~(chars[j] = "x" /\ chars[j + 1] = "x")
         IN  SubSeq(chars, 1, i - 1) \o <<"\\d", "\\d">> \o SubSeq(chars, i + 2, Len(chars))
    ELSE chars
IsRegExp(pattern) == \A i \in 1 .. Len(pattern) : pattern[i] # "("
test(pattern, text) ==
    /\ Len(pattern) = Len(text)
    /\ \A i \in 1 .. Len(pattern) :
          IF pattern[i] = "\\d" THEN text[i] \in Digits ELSE pattern[i] = text[i]

\* What a call of evaluateAssertion ends with: the AssertionResult it
\* returns, or the error it throws.
AssertionResult(passed, form, details, hint) ==
    [raised |-> FALSE, passed |-> passed, assertion |-> form, details |-> details,
     hint |-> hint]
Raises(error) == [raised |-> TRUE, error |-> error]

\* The loop over the stateChecks from check i on: the result for the first
\* path whose value differs from the expected literal, else the passing one.
RECURSIVE checkState(_, _, _, _, _)
checkState(registeredEntry, componentName, stateChecks, i, form) ==
    IF i > Len(stateChecks)
    THEN AssertionResult(TRUE, form,
                         [component |-> componentName,
                          state |-> IF "state" \in DOMAIN registeredEntry
                                    THEN registeredEntry.state ELSE Undef],
                         Undef)
    ELSE LET path == PathOf(stateChecks[i].key)
             actual == getNestedValue(IF "state" \in DOMAIN registeredEntry
                                      THEN registeredEntry.state ELSE Undef, path)
             expectedValue == parseValue(stateChecks[i].value)
         IN  IF ~StrictlyEqual(actual, expectedValue)
             THEN AssertionResult(FALSE, form,
                                  [component |-> componentName, path |-> path,
                                   expected |-> expectedValue, actual |-> actual],
                                  [says |-> "is, expected", component |-> componentName,
                                   path |-> path, actual |-> actual,
                                   expected |-> expectedValue])
             ELSE checkState(registeredEntry, componentName, stateChecks, i + 1, form)

\* The result for a status pattern that has a 5 or a 4 in it.
networkResult(state, status, form) ==
    LET regex == replaceXX(Letters[status])
        matches == SelectSeq(state.network,
                             LAMBDA r : r.status # Null /\ test(regex, Letters[r.status]))
    IN  AssertionResult(Len(matches) = 0, form,
                        [pattern |-> status, matches |-> Len(matches),
                         requests |-> matches],
                        IF Len(matches) > 0
                        THEN [says |-> "Found request(s) with status",
                              count |-> Len(matches), status |-> status]
                        ELSE Undef)

\* The families tried whatever the later parameters are.
evaluateAssertion_routeFirst(state, form) ==
    LET params == Params(form)
    IN  IF In("route", params)
        THEN AssertionResult(
                 (IF "route" \in DOMAIN state THEN state.route ELSE Undefined)
                     = ParamOf(params, "route"), form,
                 [expected |-> ParamOf(params, "route"),
                  actual |-> IF "route" \in DOMAIN state THEN state.route ELSE Undefined],
                 Undef)
        ELSE AssertionResult(FALSE, form, [error |-> "Unknown assertion type"],
                 [says |-> "Supported: errors=empty, component=Name, route=/path, network with status"])

\* evaluateAssertion(state, params), params being those of the query string
\* form: errors, then component, then route, then network, then the
\* result for an unknown assertion.  Reading a property of a field the
\* snapshot lacks throws a TypeError.
evaluateAssertion(state, form) ==
    LET params == Params(form)
        unknown ==
            AssertionResult(FALSE, form, [error |-> "Unknown assertion type"],
                [says |-> "Supported: errors=empty, component=Name, route=/path, network with status"])
        network ==
            IF In("network", params) /\ Truthy(ParamOf(params, "status"))
            THEN LET status == ParamOf(params, "status")
                 IN  IF ~IsRegExp(replaceXX(Letters[status])) THEN Raises("SyntaxError")
                     ELSE IF "network" \notin DOMAIN state THEN Raises("TypeError")
                     ELSE IF \E i \in 1 .. Len(Letters[status]) :
                                 Letters[status][i] \in {"5", "4"}
                     THEN networkResult(state, status, form)
                     ELSE unknown
            ELSE unknown
        route ==
            IF In("route", params)
            THEN LET expected == ParamOf(params, "route")
                     actual == IF "route" \in DOMAIN state THEN state.route ELSE Undefined
                 IN  AssertionResult(actual = expected, form,
                                     [expected |-> expected, actual |-> actual],
                                     IF actual = expected THEN Undef
                                     ELSE [says |-> "Route is, expected",
                                           actual |-> actual, expected |-> expected])
            ELSE network
        component ==
            IF In("component", params)
            THEN IF "registered" \notin DOMAIN state THEN Raises("TypeError")
                 ELSE LET componentName == ParamOf(params, "component")
                          registeredEntry == RegisteredAs(state, componentName)
                      IN  IF registeredEntry = Undef
                          THEN AssertionResult(FALSE, form,
                                   [expected |-> "component to exist",
                                    actual |-> "not found",
                                    available |-> DOMAIN state.registered],
                                   [says |-> "is not registered. Available",
                                    component |-> componentName,
                                    available |-> DOMAIN state.registered])
                          ELSE checkState(registeredEntry, componentName,
                                          SelectSeq(params,
                                                    LAMBDA entry : entry.key \in DOMAIN Segments),
                                          1, form)
            ELSE route
    IN  IF In("errors", params) /\ ParamOf(params, "errors") = "empty"
        THEN IF "errors" \notin DOMAIN state THEN Raises("TypeError")
             ELSE AssertionResult(Len(state.errors) = 0, form,
                                  [expected |-> "no errors", actual |-> Len(state.errors),
                                   errors |-> state.errors],
                                  IF Len(state.errors) > 0
                                  THEN [says |-> "Found error(s)",
                                        count |-> Len(state.errors),
                                        message |-> state.errors[1].message]
                                  ELSE Undef)
        ELSE component

\* GET /xray/assert: 401 without the secret, {error: 'No state available'}
\* without a snapshot, else the result of evaluateAssertion; an error it
\* throws leaves the handler and the server answers 500.
AssertEndpoint(header, query, form) ==
    /\ IF ~checkAuth(header, query, secret)
       THEN sendUnauthorized("assert", header, query)
       ELSE /\ last' =
                  IF currentState = NoSnapshot
                  THEN [Answer("assert", header, query, 200) EXCEPT
                            !.verdict = [error |-> "No state available"]]
                  ELSE LET result == evaluateAssertion(currentState, form)
                       IN  [Answer("assert", header, query,
                                   IF result.raised THEN 500 ELSE 200) EXCEPT
                                !.verdict = result]
            /\ UNCHANGED <<pendingCommands, timers, promise, fired, responses, currentState>>
    /\ UNCHANGED <<clientVars, collectorVars, secret, serializerVars, adapterVars, streamVars, pageVars>>

\* ------------------------------------------------------ framework adapters
\* An application uses one adapter at a time and initializes it before the
\* components that use its bindings are set up.
\* createCollector returns a new collector at every call; a collector is
\* known by the number of the call that made it.
Collector(n) == "collector" \o ToString(n)
CollectorIds == {Collector(n) : n \in 1 .. MaxCollectors}
AdapterKinds == {"react", "vue", "svelte"}
ComponentName == "Dashboard"

\* The values a component passes to useXray: an object (its identity) and
\* the text safeSerialize gives for it.
StateObject(obj, text) == [obj |-> obj, text |-> text]
NoState == [obj |-> 0, text |-> Undefined]
OtherObject(obj) == IF obj = 1 THEN 2 ELSE 1

NoAdapter == [kind |-> "none", phase |-> "none", own |-> Null, window |-> Undefined,
              op |-> "none"]
NoComponent == [mounted |-> FALSE, state |-> NoState, collector |-> Null,
                prevStateRef |-> Undefined, cleanup |-> Null]
AdapterIdle ==
    /\ globalCollector = Null
    /\ created = 0
    /\ registries = [c \in CollectorIds |-> << >>]
    /\ adapter = NoAdapter
    /\ consumer = NoComponent

\* getCollector() / setCollector(collector) of the core.
getCollector == globalCollector
setCollector(collector) == globalCollector' = collector

\* collector.registerState(name, state) and collector.unregisterState(name)
\* on collector c: Map.set and Map.delete.
Registered(map, c, name, state) ==
    [map EXCEPT ![c] = [n \in DOMAIN map[c] \cup {name} |->
                           IF n = name THEN state ELSE map[c][n]]]
Unregistered(map, c, name) ==
    [map EXCEPT ![c] = [n \in DOMAIN map[c] \ {name} |-> map[c][n]]]

AdapterFrame ==
    UNCHANGED <<hostVars, clientVars, collectorVars, secret, serializerVars,
                streamVars, pageVars>>

\* The first render and the first effect of <XrayProvider enabled config>:
\* the render creates the collector and sets the pointer, the effect sets
\* window.__XRAY_COLLECTOR__.
XrayProviderMount(enabled) ==
    /\ adapter.phase # "mounted"
    /\ ~consumer.mounted
    /\ created < MaxCollectors
    /\ IF enabled
       THEN /\ created' = created + 1
            /\ setCollector(Collector(created + 1))
            /\ adapter' = [kind |-> "react", phase |-> "mounted", own |-> Collector(created + 1),
                           window |-> Collector(created + 1), op |-> "XrayProvider"]
       ELSE /\ adapter' = [NoAdapter EXCEPT !.kind = "react", !.op = "disabled"]
            /\ UNCHANGED <<created, globalCollector>>
    /\ UNCHANGED <<registries, consumer>>
    /\ AdapterFrame

\* A later render of the provider.  collectorRef.current is set, so the
\* render leaves the pointer alone; when `config` is another object than at
\* the previous render (the default `config = {}` is a new object at every
\* render) the effect's cleanup and then the effect run again.
XrayProviderRender(sameConfig) ==
    /\ adapter.kind = "react" /\ adapter.phase = "mounted"
    /\ IF sameConfig
       THEN UNCHANGED globalCollector
       ELSE setCollector(Null)
    /\ adapter' = [adapter EXCEPT !.op = "render", !.window = adapter.own]
    /\ UNCHANGED <<created, registries, consumer>>
    /\ AdapterFrame

\* The cleanup a useXray effect returned: collector.unregisterState(name)
\* on the collector the effect had closed over.
RunEffectCleanup(map, comp) ==
    IF comp.cleanup = Null THEN map ELSE Unregistered(map, comp.cleanup, ComponentName)

\* The provider unmounts: the cleanup of its effect, and the cleanup of the
\* effects of the components below it.
XrayProviderUnmount ==
    /\ adapter.kind = "react" /\ adapter.phase = "mounted"
    /\ setCollector(Null)
    /\ adapter' = [adapter EXCEPT !.phase = "torn", !.window = Null,
                                  !.op = "XrayProvider.unmount"]
    /\ registries' = RunEffectCleanup(registries, consumer)
    /\ consumer' = NoComponent
    /\ UNCHANGED created
    /\ AdapterFrame

\* useXray(name, state) of the React bindings during one render of the
\* component, and the effect that follows the render. The effect has the
\* dependencies [name, state, collector]: when one of them is not identical
\* to its value at the previous render, the previous effect's cleanup runs
\* and then the effect, which registers the state only when its serialized
\* text differs from prevStateRef.current.
useXray(text, fresh) ==
    /\ adapter.kind = "react" /\ adapter.phase = "mounted"
    /\ ~fresh => consumer.mounted /\ text = consumer.state.text
    /\ LET state == IF fresh THEN StateObject(OtherObject(consumer.state.obj), text)
                    ELSE consumer.state
           collector == getCollector
           changed == \/ ~consumer.mounted
                      \/ state.obj # consumer.state.obj
                      \/ collector # consumer.collector
           cleaned == RunEffectCleanup(registries, consumer)
           serializedState == state.text
       IN  IF ~changed
           THEN UNCHANGED <<registries, consumer>>
           ELSE IF collector = Null
           THEN /\ registries' = cleaned
                /\ consumer' = [consumer EXCEPT !.mounted = TRUE, !.state = state,
                                    !.collector = collector, !.cleanup = Null]
           ELSE /\ registries' =
                      IF serializedState # consumer.prevStateRef
                      THEN Registered(cleaned, collector, ComponentName, state)
                      ELSE cleaned
                /\ consumer' = [mounted |-> TRUE, state |-> state,
                                 collector |-> collector,
                                 prevStateRef |-> serializedState,
                                 cleanup |-> collector]
    /\ adapter' = [adapter EXCEPT !.op = "useXray"]
    /\ UNCHANGED <<globalCollector, created>>
    /\ AdapterFrame

\* The component unmounts: its effect's cleanup runs, its refs are gone.
useXrayUnmount ==
    /\ adapter.kind = "react" /\ adapter.phase = "mounted"
    /\ consumer.mounted
    /\ registries' = RunEffectCleanup(registries, consumer)
    /\ consumer' = NoComponent
    /\ adapter' = [adapter EXCEPT !.op = "useXray.unmount"]
    /\ UNCHANGED <<globalCollector, created>>
    /\ AdapterFrame

\* app.use(xrayVuePlugin, {enabled}): install.
install(enabled) ==
    /\ adapter.phase # "mounted"
    /\ ~consumer.mounted
    /\ created < MaxCollectors
    /\ IF enabled
       THEN /\ created' = created + 1
            /\ setCollector(Collector(created + 1))
            /\ adapter' = [kind |-> "vue", phase |-> "mounted", own |-> Collector(created + 1),
                           window |-> Collector(created + 1), op |-> "install"]
       ELSE /\ adapter' = [NoAdapter EXCEPT !.kind = "vue", !.op = "disabled"]
            /\ UNCHANGED <<created, globalCollector>>
    /\ UNCHANGED <<registries, consumer>>
    /\ AdapterFrame

\* cleanupXray() of the Vue bindings: cleanup?.(), cleanup = null,
\* collector = null, window.__XRAY_COLLECTOR__ = null.
cleanupXray ==
    /\ adapter.kind = "vue"
    /\ adapter' = [adapter EXCEPT !.phase = IF @ = "mounted" THEN "torn" ELSE @,
                                  !.own = Null, !.window = Null, !.op = "cleanupXray"]
    /\ UNCHANGED <<globalCollector, created, registries, consumer>>
    /\ AdapterFrame

\* useXray(name, state) of the Vue bindings in a component's setup: without
\* a collector it returns; otherwise the immediate watch callback registers
\* the value and onUnmounted is given the closure over the collector.
vueUseXray(text) ==
    /\ adapter.kind = "vue"
    /\ ~consumer.mounted
    /\ LET collector == getCollector
           state == StateObject(1, text)
       IN  IF collector = Null
           THEN /\ consumer' = [NoComponent EXCEPT !.mounted = TRUE, !.state = state]
                /\ UNCHANGED registries
           ELSE /\ consumer' = [mounted |-> TRUE, state |-> state,
                                 collector |-> collector, prevStateRef |-> Undefined,
                                 cleanup |-> collector]
                /\ registries' = Registered(registries, collector, ComponentName, state)
    /\ adapter' = [adapter EXCEPT !.op = "useXray"]
    /\ UNCHANGED <<globalCollector, created>>
    /\ AdapterFrame

\* The onUnmounted callback of the Vue useXray.
vueOnUnmounted ==
    /\ adapter.kind = "vue"
    /\ consumer.mounted
    /\ registries' = RunEffectCleanup(registries, consumer)
    /\ consumer' = NoComponent
    /\ adapter' = [adapter EXCEPT !.op = "useXray.unmount"]
    /\ UNCHANGED <<globalCollector, created>>
    /\ AdapterFrame

\* initXray({enabled}) of the Svelte bindings.
initXray(enabled) ==
    /\ adapter.phase # "mounted"
    /\ ~consumer.mounted
    /\ created < MaxCollectors
    /\ IF enabled
       THEN /\ created' = created + 1
            /\ setCollector(Collector(created + 1))
            /\ adapter' = [kind |-> "svelte", phase |-> "mounted", own |-> Collector(created + 1),
                           window |-> Collector(created + 1), op |-> "initXray"]
       ELSE /\ adapter' = [NoAdapter EXCEPT !.kind = "svelte", !.op = "disabled"]
            /\ UNCHANGED <<created, globalCollector>>
    /\ UNCHANGED <<registries, consumer>>
    /\ AdapterFrame

\* The callable initXray returned: stopPolling(), cleanup?.(), cleanup = null,
\* collector = null, setCollector(null), window.__XRAY_COLLECTOR__ = null.
initXrayCleanup ==
    /\ adapter.kind = "svelte"
    /\ adapter.phase \in {"mounted", "torn"}
    /\ adapter' = [adapter EXCEPT !.phase = "torn", !.own = Null, !.window = Null,
                                  !.op = "initXray.cleanup"]
    /\ setCollector(Null)
    /\ UNCHANGED <<created, registries, consumer>>
    /\ AdapterFrame

\* registerState(name, value) and unregisterState(name) of the Svelte
\* bindings: getCollector()?.registerState(name, value).
svelteRegisterState(text) ==
    /\ adapter.kind = "svelte"
    /\ registries' = IF getCollector = Null THEN registries
                     ELSE Registered(registries, getCollector, ComponentName,
                                     StateObject(1, text))
    /\ adapter' = [adapter EXCEPT !.op = "registerState"]
    /\ UNCHANGED <<globalCollector, created, consumer>>
    /\ AdapterFrame

svelteUnregisterState ==
    /\ adapter.kind = "svelte"
    /\ registries' = IF getCollector = Null THEN registries
                     ELSE Unregistered(registries, getCollector, ComponentName)
    /\ adapter' = [adapter EXCEPT !.op = "unregisterState"]
    /\ UNCHANGED <<globalCollector, created, consumer>>
    /\ AdapterFrame

\* ------------------------------------------------------- request bodies
\* xrayPlugin({maxRequestBodySize}): the ceiling the plugin was given.
maxRequestBodySize == MaxBytes - 1

\* The characters of a body and their UTF-8 bytes.
BodyChars == {"a", "eacute"}
ReplacementChar == "U+FFFD"
Utf8 == [c \in BodyChars |-> IF c = "a" THEN <<"61">> ELSE <<"C3", "A9">>]
RECURSIVE encode(_)
encode(chars) == IF chars = << >> THEN << >> ELSE Utf8[Head(chars)] \o encode(Tail(chars))

\* chunk.toString(): the UTF-8 decoding of one Buffer on its own; a byte
\* sequence that is not complete within the buffer becomes U+FFFD.
RECURSIVE toString(_)
toString(chunk) ==
    IF chunk = << >> THEN << >>
    ELSE IF Head(chunk) = "61" THEN <<"a">> \o toString(Tail(chunk))
    ELSE IF Head(chunk) = "C3" /\ Len(chunk) > 1 /\ chunk[2] = "A9"
    THEN <<"eacute">> \o toString(Tail(Tail(chunk)))
    ELSE <<ReplacementChar>> \o toString(Tail(chunk))

\* The bodies a client sends: texts of at most MaxBytes bytes.
RECURSIVE TextsUpTo(_)
TextsUpTo(n) ==
    IF n = 0 THEN {<< >>}
    ELSE LET shorter == TextsUpTo(n - 1)
         IN  shorter \cup {t \in {Append(s, c) : s \in shorter, c \in BodyChars} :
                              Len(encode(t)) <= n}
Bodies == TextsUpTo(MaxBytes)

\* The Content-Length header of a request: absent, not a number, or the
\* number of bytes of the body.
Declarations == {"absent", "NaN", "length"}

NoRequest == [state |-> "none", text |-> << >>, declaration |-> "absent", rest |-> << >>]
NoReader == [body |-> << >>, receivedSize |-> 0, aborted |-> FALSE,
             listening |-> FALSE, resolved |-> << >>]
StreamIdle == incoming = NoRequest /\ reader = NoReader /\ answers = << >>

StreamFrame ==
    UNCHANGED <<pendingCommands, timers, promise, fired, responses, last,
                clientVars, collectorVars, secret, serializerVars, adapterVars, pageVars>>

\* A POST to /xray/__push arrives: the handler calls readBodyWithLimit,
\* whose executor answers 413 and resolves null when the declared length
\* is a number above maxSize, and subscribes to the request otherwise.
pushArrives(text, declaration) ==
    /\ incoming = NoRequest
    /\ LET bytes == encode(text)
           declaredSize == Len(bytes)
           tooLarge == declaration = "length" /\ declaredSize > maxRequestBodySize
       IN  /\ incoming' = [state |-> "open", text |-> text, declaration |-> declaration,
                           rest |-> bytes]
           /\ IF tooLarge
              THEN /\ answers' = Append(answers, 413)
                   /\ reader' = [NoReader EXCEPT !.resolved = <<Nul>>]
              ELSE /\ answers' = answers
                   /\ reader' = [NoReader EXCEPT !.listening = TRUE]
    /\ UNCHANGED currentState
    /\ StreamFrame

\* req 'data': the request emits its next n bytes as one chunk.
onData(n) ==
    /\ incoming.state = "open"
    /\ n \in 1 .. Len(incoming.rest)
    /\ LET chunk == SubSeq(incoming.rest, 1, n)
           receivedSize == reader.receivedSize + Len(chunk)
       IN  IF ~reader.listening \/ reader.aborted
           THEN /\ incoming' = [incoming EXCEPT !.rest = SubSeq(@, n + 1, Len(@))]
                /\ UNCHANGED <<reader, answers>>
           ELSE IF receivedSize > maxRequestBodySize
           THEN /\ reader' = [reader EXCEPT !.receivedSize = receivedSize,
                                 !.aborted = TRUE, !.resolved = Append(@, Nul)]
                /\ answers' = Append(answers, 413)
                /\ incoming' = [incoming EXCEPT !.state = "destroyed"]
           ELSE /\ reader' = [reader EXCEPT !.receivedSize = receivedSize,
                                 !.body = @ \o toString(chunk)]
                /\ incoming' = [incoming EXCEPT !.rest = SubSeq(@, n + 1, Len(@))]
                /\ answers' = answers
    /\ UNCHANGED currentState
    /\ StreamFrame

\* req 'end': every byte has been emitted. Unless aborted, the promise
\* resolves with the body and the handler goes on: currentState =
\* JSON.parse(body), answer {ok: true}.  The body is the JSON text of a
\* string with the characters sent.
onEnd ==
    /\ incoming.state = "open"
    /\ incoming.rest = << >>
    /\ incoming' = [incoming EXCEPT !.state = "ended"]
    /\ IF reader.listening /\ ~reader.aborted
       THEN /\ reader' = [reader EXCEPT !.resolved = Append(@, Text(reader.body))]
            /\ currentState' = Text(reader.body)
            /\ answers' = Append(answers, 200)
       ELSE UNCHANGED <<reader, currentState, answers>>
    /\ StreamFrame

\* req 'error': the connection fails, or the destroyed request reports it.
onError ==
    /\ incoming.state \in {"open", "destroyed"}
    /\ incoming' = [incoming EXCEPT !.state = "errored"]
    /\ IF reader.listening /\ ~reader.aborted
       THEN /\ reader' = [reader EXCEPT !.aborted = TRUE, !.resolved = Append(@, Nul)]
            /\ answers' = Append(answers, 500)
       ELSE UNCHANGED <<reader, answers>>
    /\ UNCHANGED currentState
    /\ StreamFrame

\* ---------------------------------------------------------- specifications
PluginInit(configuredSecret) ==
    /\ pendingCommands = << >>
    /\ timers = {}
    /\ promise = [i \in Ids |-> [state |-> "none", result |-> NoResult, error |-> Undefined]]
    /\ fired = [i \in Ids |-> 0]
    /\ responses = [i \in Ids |-> << >>]
    /\ currentState = NoSnapshot
    /\ last = NoLast
    /\ secret = configuredSecret
    /\ polling = FALSE
    /\ pollFrames = << >>
    /\ pushing = FALSE
    /\ pushFrames = << >>
    /\ windowCollector = FALSE
    /\ executed = [i \in Ids |-> 0]
    /\ reloaded = FALSE

\* xrayPlugin() without options and the injected script before it runs.
BridgeInit == PluginInit(Undefined)

\* The state createCollector(config) returns a collector in.
CollectorInit(config) ==
    /\ cfg = config
    /\ registered = << >>
    /\ errors = << >>
    /\ warnings = << >>
    /\ consoleEntries = << >>
    /\ networkRequests = << >>
    /\ heap = << >>
    /\ now = 0
    /\ op = [name |-> "createCollector", key |-> "", value |-> ""]
    /\ appended = NothingAppended
    /\ held = NoSnapshot
    /\ heldView = NoSnapshot

Init == BridgeInit /\ CollectorInit(DEFAULT_CONFIG) /\ PageInit /\ SerializerIdle /\ AdapterIdle /\ StreamIdle

\* The command bridge: the host and the command poll of one client runtime.
Next ==
    \/ \E c \in Commands, id \in Ids : CommandEndpoint(c, id)
    \/ \E t \in timers : timerFires(t)
    \/ pollCommands
    \/ \E f \in 1 .. Len(pollFrames) : CommandsAnswered(f)
    \/ \E f \in 1 .. Len(pollFrames) : ExecuteNext(f)
    \/ \E f \in 1 .. Len(pollFrames) : ResultAnswered(f)
    \/ \E f \in 1 .. Len(pollFrames) : PollFails(f)
    \/ Reload

Spec == Init /\ [][Next]_vars

\* The client runtime with both of its loops, and the host.
ClientNext ==
    \/ Next
    \/ \E trigger \in {"interval", "error", "ready"} : pushState(trigger)
    \/ \E i \in 1 .. Len(pushFrames) : PushAnswered(i)
    \/ \E i \in 1 .. Len(pushFrames) : PushFails(i)
    \/ MountAdapter
    \/ UnmountAdapter

ClientSpec == Init /\ [][ClientNext]_vars

\* The client runtime of a page that stays loaded, with its adapter mounted.
\* Two commands let a cycle end with a later command of its list unreported.
LoopIds == {1, 2}
LoopNext ==
    \/ \E c \in Commands, id \in LoopIds : CommandEndpoint(c, id)
    \/ \E t \in timers : timerFires(t)
    \/ pollCommands
    \/ \E f \in 1 .. Len(pollFrames) : CommandsAnswered(f)
    \/ \E f \in 1 .. Len(pollFrames) : ExecuteNext(f)
    \/ \E f \in 1 .. Len(pollFrames) : ResultAnswered(f)
    \/ \E f \in 1 .. Len(pollFrames) : PollFails(f)
    \/ \E trigger \in {"interval", "error", "ready"} : pushState(trigger)
    \/ \E i \in 1 .. Len(pushFrames) : PushAnswered(i)
    \/ \E i \in 1 .. Len(pushFrames) : PushFails(i)
    \/ MountAdapter

\* Its scheduling: setInterval keeps calling pushState and pollCommands,
\* code that is ready to run runs, every outbound call settles (it is
\* answered or it fails), and the host's timers fire.
LoopLiveSpec ==
    /\ Init /\ [][LoopNext]_vars
    /\ WF_vars(pollCommands)
    /\ WF_vars(pushState("interval"))
    /\ WF_vars(CommandsAnswered(1) \/ ResultAnswered(1) \/ PollFails(1))
    /\ WF_vars(ExecuteNext(1))
    /\ WF_vars(PushAnswered(1) \/ PushFails(1))
    /\ \A id \in Ids, c \in Commands :
          WF_vars(\E t \in timers : t.id = id /\ t.command = c /\ timerFires(t))

\* A page whose application reports to its collector while the push loop
\* runs, and an outside caller that reads and clears the host's snapshot.
SyncNext ==
    \/ MountAdapter
    \/ \E trigger \in {"interval", "error", "ready"} : pushState(trigger)
    \/ \E i \in 1 .. Len(pushFrames) : PushAnswered(i)
    \/ \E i \in 1 .. Len(pushFrames) : PushFails(i)
    \/ addError(ErrorRecord)
    \/ addConsole(ConsoleRecord("warn"))
    \/ addNetwork(PendingRequest("a"))
    \/ clear
    \/ StateEndpoint(Undefined, Null)
    \/ ClearEndpoint(Undefined, Null)

SyncSpec == Init /\ [][SyncNext]_vars

\* A page whose interceptors are installed (body capture off) around a
\* collector with a small network buffer, before its loops have made a call.
WrappedInit ==
    /\ BridgeInit
    /\ \E max \in 1 .. MaxCap :
          CollectorInit([DEFAULT_CONFIG EXCEPT !.maxNetworkEntries = max])
    /\ SerializerIdle /\ AdapterIdle /\ StreamIdle
    /\ \E h \in BOOLEAN :
          /\ icfg = InterceptConfig(h, FALSE, DEFAULT_MAX_BODY_SIZE)
          /\ isIntercepting = TRUE
          /\ hooks = [console |-> <<1>>, fetch |-> <<1>>, error |-> {1},
                      unhandledrejection |-> {1}]
          /\ cleanupFns = <<[restores |-> "console", original |-> << >>],
                            [restores |-> "fetch", original |-> << >>],
                            [restores |-> "error", original |-> <<1>>],
                            [restores |-> "unhandledrejection", original |-> <<1>>]>>
          /\ installed = 1
          /\ handles = {"teardown"}
          /\ invoked = 0
          /\ pageOp = "setupInterceptors"
          /\ calls = NoCalls

\* The loops of that page, the host, and the application's own fetch calls.
WrappedNext ==
    \/ MountAdapter
    \/ pushState("interval")
    \/ \E i \in 1 .. Len(pushFrames) : PushAnswered(i)
    \/ \E i \in 1 .. Len(pushFrames) : PushFails(i)
    \/ \E id \in LoopIds : CommandEndpoint("queryDom", id)
    \/ \E t \in timers : timerFires(t)
    \/ pollCommands
    \/ \E f \in 1 .. Len(pollFrames) : CommandsAnswered(f)
    \/ \E f \in 1 .. Len(pollFrames) : ExecuteNext(f)
    \/ \E f \in 1 .. Len(pollFrames) : ResultAnswered(f)
    \/ \E f \in 1 .. Len(pollFrames) : PollFails(f)
    \/ \E id \in NetIds : fetchCalled("blob", "hunter2", id)
    \/ \E id \in NetIds : fetchFails(id)

WrappedSpec == WrappedInit /\ [][WrappedNext]_vars

\* The host alone, with every request a client could send it.
HostNext ==
    \/ \E c \in Commands, id \in Ids : CommandEndpoint(c, id)
    \/ \E t \in timers : timerFires(t)
    \/ \E id \in {0} \cup Ids, kind \in RequestKinds : PostResult(id, kind)
    \/ GetCommands

HostSpec == Init /\ [][HostNext]_vars

\* setTimeout runs the callback of every timer that is not cleared.
HostLiveSpec ==
    HostSpec /\ \A id \in Ids, c \in Commands : WF_vars(\E t \in timers :
                                                    t.id = id /\ t.command = c /\ timerFires(t))

\* The host configured with any secret, and every request to its endpoints.
SecuredInit ==
    (\E s \in Secrets : PluginInit(s)) /\ CollectorInit(DEFAULT_CONFIG) /\ PageInit
    /\ SerializerIdle /\ AdapterIdle /\ StreamIdle

EndpointNext ==
    \/ \E cr \in Credentials, k \in PushKinds : PushEndpoint(cr[1], cr[2], k)
    \/ \E cr \in Credentials : CommandsEndpoint(cr[1], cr[2])
    \/ \E cr \in Credentials, id \in {0} \cup Ids, k \in {"small", "text"} :
          ResultEndpoint(cr[1], cr[2], id, k)
    \/ \E cr \in Credentials : StateEndpoint(cr[1], cr[2])
    \/ \E cr \in Credentials : ClearEndpoint(cr[1], cr[2])
    \/ \E cr \in Credentials, id \in Ids :
          SecuredCommandEndpoint(cr[1], cr[2], "queryDom", id)
    \/ \E t \in timers : timerFires(t)

EndpointSpec == SecuredInit /\ [][EndpointNext]_vars

\* The page: interceptors installed and torn down in any order, and the
\* console calls, events and fetch calls they observe.
InterceptNext ==
    \/ \E b \in BOOLEAN : setupInterceptors(TRUE, b, DEFAULT_MAX_BODY_SIZE)
    \/ teardown
    \/ noopTeardown
    \/ \E level \in LoggedLevels : consoleCalled(level)
    \/ errorEvent
    \/ rejectionEvent
    \/ \E id \in NetIds : fetchCalled("json", "hunter2", id)

InterceptSpec == Init /\ [][InterceptNext]_vars

\* A page whose interceptors were installed with some config, and the
\* fetch calls it makes.
InstalledInit ==
    /\ BridgeInit
    /\ CollectorInit(DEFAULT_CONFIG)
    /\ SerializerIdle /\ AdapterIdle /\ StreamIdle
    /\ \E h \in BOOLEAN, b \in BOOLEAN, size \in BodySizes :
          /\ icfg = InterceptConfig(h, b, size)
          /\ isIntercepting = TRUE
          /\ hooks = [console |-> <<1>>, fetch |-> <<1>>, error |-> {1},
                      unhandledrejection |-> {1}]
          /\ cleanupFns = <<[restores |-> "console", original |-> << >>],
                            [restores |-> "fetch", original |-> << >>],
                            [restores |-> "error", original |-> <<1>>],
                            [restores |-> "unhandledrejection", original |-> <<1>>]>>
          /\ installed = 1
          /\ handles = {"teardown"}
          /\ invoked = 0
          /\ pageOp = "setupInterceptors"
          /\ calls = NoCalls

CaptureNext ==
    \/ \E shape \in CallShapes, p \in SecretValues, id \in NetIds : fetchCalled(shape, p, id)
    \/ \E id \in NetIds, shape \in ResponseShapes, p \in SecretValues :
          fetchResponds(id, shape, p)
    \/ \E id \in NetIds : fetchFails(id)

CaptureSpec == InstalledInit /\ [][CaptureNext]_vars

\* The fetch calls of a page whose interceptors are installed, with the
\* collector cleared at any moment.
FetchNext ==
    \/ CaptureNext
    \/ clear

FetchSpec == InstalledInit /\ [][FetchNext]_vars

\* The assertions of an outside caller on the snapshots a page pushes.
AssertCredentials == {<<Undefined, Null>>, <<"s3cret", Null>>}
AssertNext ==
    \/ \E cr \in AssertCredentials, k \in AssertKinds : PushEndpoint(cr[1], cr[2], k)
    \/ \E cr \in AssertCredentials, form \in Forms : AssertEndpoint(cr[1], cr[2], form)
    \/ \E cr \in AssertCredentials : ClearEndpoint(cr[1], cr[2])

AssertSpec == SecuredInit /\ [][AssertNext]_vars

\* The serializer on the values a caller builds, under the option values
\* that make the limits bite and the defaults.
MaxDepths == {0, 1, DEFAULT_OPTIONS.maxDepth}
MaxLengths == {DEFAULT_OPTIONS.maxLength, 5}
SerializerNext ==
    \/ \E o \in ObjIds, value \in SlotValues : setProperty(o, value)
    \/ \E o \in ObjIds : newArray(o)
    \/ \E maxDepth \in MaxDepths, maxLength \in MaxLengths :
          callSafeSerialize(maxDepth, maxLength)

SerializerSpec == Init /\ [][SerializerNext]_vars

\* The collector under every sequence of its operations.
\* The adapters of the three frameworks and the components under them.
AdapterNext ==
    \/ \E enabled \in BOOLEAN :
          XrayProviderMount(enabled) \/ install(enabled) \/ initXray(enabled)
    \/ \E sameConfig \in BOOLEAN : XrayProviderRender(sameConfig)
    \/ XrayProviderUnmount
    \/ \E text \in States, fresh \in BOOLEAN : useXray(text, fresh)
    \/ useXrayUnmount
    \/ cleanupXray
    \/ \E text \in States : vueUseXray(text) \/ svelteRegisterState(text)
    \/ vueOnUnmounted
    \/ initXrayCleanup
    \/ svelteUnregisterState

AdapterSpec == Init /\ [][AdapterNext]_vars

\* Requests to /xray/__push whose bodies arrive in chunks.
StreamNext ==
    \/ \E text \in Bodies, declaration \in Declarations : pushArrives(text, declaration)
    \/ \E n \in 1 .. MaxBytes : onData(n)
    \/ onEnd
    \/ onError

StreamSpec == Init /\ [][StreamNext]_vars

CollectorNext ==
    \/ \E n \in Names, st \in States : registerState(n, st)
    \/ \E n \in Names : unregisterState(n)
    \/ addError(ErrorRecord)
    \/ \E l \in LoggedLevels : addConsole(ConsoleRecord(l))
    \/ \E id \in NetIds : addNetwork(PendingRequest(id))
    \/ \E id \in NetIds, o \in Outcomes : updateNetwork(id, Updates(o))
    \/ GetState
    \/ clear

\* The collector and a caller that keeps and edits the snapshots it gets.
CallerNext ==
    \/ CollectorNext
    \/ \E kind \in {"push", "shift"} : callerEditsArray(kind)
    \/ callerEditsRegistered
    \/ \E i \in 1 .. Len(held.network) : callerEditsEntry(i)

CallerSpec == Init /\ [][CallerNext]_vars

ConfiguredInit ==
    BridgeInit /\ (\E config \in Configs : CollectorInit(config)) /\ PageInit
    /\ SerializerIdle /\ AdapterIdle /\ StreamIdle

CollectorSpec == ConfiguredInit /\ [][CollectorNext]_vars

\* ------------------------------------------------------------------ claims
Settled(id) == promise[id].state \in {"fulfilled", "rejected"}
PendingIds == {pendingCommands[i].id : i \in 1 .. Len(pendingCommands)}
TimeoutOutcome(command) ==
    [state |-> "rejected", result |-> NoResult, error |-> TimeoutMessage(command)]

\* C1: the continuation of a queued command is invoked at most once, whatever
\* the order of its timer and of any number of result reports for its id; once
\* invoked, the promise is fulfilled with a result or rejected with an error.
C1_AtMostOneOutcome ==
    \A id \in Ids :
        /\ fired[id] <= 1
        /\ fired[id] = 1 <=> Settled(id)
        /\ promise[id].state = "fulfilled" => promise[id].error = Undefined
        /\ promise[id].state = "rejected" => Truthy(promise[id].error)

\* C1 witness: a report for a command whose outcome had already fired was
\* handled (a duplicate or late delivery).
C1_Witness ==
    /\ last.op = "result" /\ last.status = 200 /\ ~last.wasPending
    /\ last.req.id \in Ids
    /\ fired[last.req.id] = 1
    /\ promise[last.req.id].state = "fulfilled"

\* C2: every queued command settles and its endpoint answers exactly once; a
\* command that settles by its timer (no request was handled in that step) is
\* removed from the table and rejected with `Command "<name>" timed out`.
C2_EventuallySettles ==
    /\ \A id \in Ids :
          (promise[id].state = "pending") ~> (Settled(id) /\ Len(responses[id]) = 1)
    /\ [][\A id \in Ids :
            (promise[id].state = "pending" /\ promise'[id].state # "pending" /\ last' = last)
            => /\ promise'[id] = TimeoutOutcome(MapGet(pendingCommands, id).command)
               /\ id \notin {pendingCommands'[i].id : i \in 1 .. Len(pendingCommands')}
               /\ responses'[id] = <<[result |-> NoResult,
                      error |-> TimeoutMessage(MapGet(pendingCommands, id).command)]>>]_vars
    /\ [](\A id \in Ids : Len(responses[id]) <= 1)

\* C2 witness: a command timed out and its endpoint answered with the error.
C2_Witness ==
    \E id \in Ids :
        /\ promise[id].state = "rejected"
        /\ promise[id].error = TimeoutMessage("queryDom")
        /\ Len(responses[id]) = 1
        /\ id \notin PendingIds

\* C3: a well-formed result report whose id is not in the pending table
\* changes nothing on the host and is answered 200.
C3_UnknownIdIsNoOp ==
    [][(/\ last' # last
        /\ last'.op = "result"
        /\ last'.req.method = "POST" /\ last'.req.json
        /\ last'.req.size <= DEFAULT_MAX_REQUEST_BODY_SIZE
        /\ ~last'.wasPending)
       => /\ pendingCommands' = pendingCommands
          /\ timers' = timers
          /\ promise' = promise
          /\ fired' = fired
          /\ responses' = responses
          /\ last'.status = 200]_vars

\* C3 witness: a report arrived for a command that had timed out before.
C3_Witness ==
    /\ last.op = "result" /\ ~last.wasPending /\ last.req.id \in Ids
    /\ last.req.error = Undefined
    /\ \E c \in Commands : promise[last.req.id] = TimeoutOutcome(c)

\* C4: while the client runtime has not reloaded, the operation of a command
\* is invoked at most once per command id.
C4_AtMostOnceExecution == ~reloaded => \A id \in Ids : executed[id] <= 1

C6_FailureRejects ==
    [][\A f \in 1 .. Len(pollFrames) :
          (/\ Len(pollFrames') = Len(pollFrames)
           /\ pollFrames[f].pc = "post" /\ pollFrames'[f].pc = "loop"
           /\ pollFrames[f].failed
           /\ pollFrames[f].msg.id \in PendingIds)
          => /\ promise'[pollFrames[f].msg.id].state = "rejected"
             /\ promise'[pollFrames[f].msg.id].error = pollFrames[f].msg.error]_vars

\* C7: the pending table holds exactly the queued commands without an
\* outcome, each once and each with a live timer, and no other timer is live;
\* getPendingCommands lists their {id, command, args} and changes nothing.
C7_TableIsOutstanding ==
    /\ [](/\ PendingIds = {id \in Ids : promise[id].state = "pending"}
          /\ \A id \in PendingIds : fired[id] = 0
          /\ \A i, j \in 1 .. Len(pendingCommands) :
                pendingCommands[i].id = pendingCommands[j].id => i = j
          /\ timers = {[id |-> pendingCommands[i].timeout,
                        command |-> pendingCommands[i].command] :
                          i \in 1 .. Len(pendingCommands)})
    /\ [][(last' # last /\ last'.op = "commands")
          => /\ pendingCommands' = pendingCommands
             /\ timers' = timers
             /\ Len(last'.listing) = Len(pendingCommands)
             /\ \A i \in 1 .. Len(pendingCommands) :
                   /\ DOMAIN last'.listing[i] = {"id", "command", "args"}
                   /\ last'.listing[i].id = pendingCommands[i].id
                   /\ last'.listing[i].command = pendingCommands[i].command
                   /\ last'.listing[i].args = pendingCommands[i].args]_vars

\* C7 witness: the listing was taken while one command was pending and
\* another had had its outcome.
C7_Witness ==
    /\ last.op = "commands" /\ Len(last.listing) = 1
    /\ Len(pendingCommands) = 1
    /\ \E id \in Ids : Settled(id)

\* The last n elements of seq, or all of them.
LastN(seq, n) ==
    IF Len(seq) <= n THEN seq ELSE [i \in 1 .. n |-> seq[Len(seq) - n + i]]

\* C8: each buffer holds at most its cap, and holds exactly the most recent
\* entries appended since the last clear, in append order.
C8_BuffersKeepNewest ==
    /\ Len(errors) <= cfg.maxErrors
    /\ Len(consoleEntries) <= cfg.maxConsoleEntries
    /\ Len(networkRequests) <= cfg.maxNetworkEntries
    /\ Len(warnings) <= cfg.maxErrors
    /\ errors = LastN(appended.errors, cfg.maxErrors)
    /\ consoleEntries = LastN(appended.console, cfg.maxConsoleEntries)
    /\ networkRequests = LastN(appended.network, cfg.maxNetworkEntries)
    /\ warnings = LastN(appended.warnings, cfg.maxErrors)

\* C8 witness: more errors were added than the cap of two allows.
C8_Witness ==
    /\ cfg.maxErrors = 2
    /\ Len(appended.errors) > 2
    /\ Len(errors) = 2

\* C9: updateNetwork with an id no buffered entry has leaves the buffers,
\* the entries and the registered map as they are.
C9_UnknownUpdateIsNoOp ==
    [][(/\ now' # now
        /\ op'.name = "updateNetwork"
        /\ \A i \in 1 .. Len(networkRequests) : heap[networkRequests[i]].id # op'.key)
       => /\ networkRequests' = networkRequests
          /\ heap' = heap
          /\ errors' = errors
          /\ warnings' = warnings
          /\ consoleEntries' = consoleEntries
          /\ registered' = registered]_vars

\* C9 witness: the update came for an entry that had been evicted.
C9_Witness ==
    /\ op.name = "updateNetwork"
    /\ \A i \in 1 .. Len(networkRequests) : heap[networkRequests[i]].id # op.key
    /\ \E i \in 1 .. Len(appended.network) : heap[appended.network[i]].id = op.key
    /\ Len(networkRequests) > 0

\* C10: what a holder reads through a returned snapshot never changes.
C10_SnapshotImmutable == held # NoSnapshot => View(held, heap) = heldView

\* C11: nothing a caller does to a snapshot it was given (editing its arrays,
\* the keys of its registered mapping, the fields of its entries) changes
\* what getState returns afterwards.
C11_CallerCannotReachInternals == [][op'.name = "caller" => Content' = Content]_vars

\* C12: registerState(name, state) puts the slot {name, state} under name,
\* replacing what was there; unregisterState(name) removes the slot and
\* changes nothing when there is none; no other operation but clear touches
\* the registered map, whatever the caps of the buffers.
C12_RegisteredLastWriteWins ==
    [][now' # now =>
        /\ op'.name = "registerState" =>
              /\ DOMAIN registered' = DOMAIN registered \cup {op'.key}
              /\ registered'[op'.key] =
                    [name |-> op'.key, state |-> op'.value, updatedAt |-> now]
              /\ \A n \in DOMAIN registered \ {op'.key} : registered'[n] = registered[n]
        /\ op'.name = "unregisterState" =>
              /\ DOMAIN registered' = DOMAIN registered \ {op'.key}
              /\ \A n \in DOMAIN registered' : registered'[n] = registered[n]
              /\ op'.key \notin DOMAIN registered => registered' = registered
        /\ op'.name \in {"addError", "addConsole", "addNetwork", "updateNetwork", "getState"}
              => registered' = registered]_vars

\* C12 witness: two names are registered in a collector whose buffers are
\* capped at one entry, and an append has just evicted an error.
C12_Witness ==
    /\ cfg = [maxErrors |-> 1, maxConsoleEntries |-> 1, maxNetworkEntries |-> 1]
    /\ DOMAIN registered = Names
    /\ op.name = "addError"
    /\ Len(appended.errors) = 2
    /\ Len(errors) = 1

\* C13: after clear() the registered map and the four buffers are empty and
\* getState shows them empty; the next append starts its buffer again from
\* empty under the unchanged caps; settling a network call whose entry was
\* cleared does not bring the entry back.
C13_ClearEmptiesAll ==
    /\ [](op.name = "clear" =>
            /\ registered = << >> /\ errors = << >> /\ warnings = << >>
            /\ consoleEntries = << >> /\ networkRequests = << >>
            /\ Content = [NoSnapshot EXCEPT !.url = getState.url, !.route = getState.route,
                                            !.title = getState.title])
    /\ [][(op.name = "clear" /\ now' # now) =>
            /\ cfg' = cfg
            /\ op'.name = "addError" =>
                  Len(errors') = 1 /\ errors'[1].message = op'.key
            /\ op'.name = "addConsole" =>
                  /\ Len(consoleEntries') = 1 /\ consoleEntries'[1].level = op'.key
                  /\ Len(warnings') = IF op'.key = "warn" THEN 1 ELSE 0
            /\ op'.name = "addNetwork" =>
                  Len(networkRequests') = 1 /\ heap'[networkRequests'[1]].id = op'.key]_vars
    /\ [][(now' # now /\ op'.name = "updateNetwork" /\ networkRequests = << >>) =>
            networkRequests' = << >> /\ heap' = heap]_vars

\* C13 witness: a network call was pending when clear ran and has settled
\* since; its entry is not in the buffer.
C13_Witness ==
    /\ op.name = "updateNetwork"
    /\ networkRequests = << >>
    /\ appended.network = << >>
    /\ \E i \in 1 .. Len(heap) : heap[i].id = op.key /\ heap[i].status = Null

\* C14: addConsole appends the message to the warnings buffer iff the level
\* is warn, and what the warnings buffer holds does not depend on the caps
\* configured for the errors, console and network buffers: a collector with
\* any other choice of these caps holds the same warnings after the same calls.
C14_WarningsCapIndependent ==
    /\ [][(now' # now /\ op'.name = "addConsole") =>
            /\ op'.key = "warn" =>
                  /\ warnings' # << >>
                  /\ warnings'[Len(warnings')] = consoleEntries'[Len(consoleEntries')].message
            /\ op'.key # "warn" => warnings' = warnings]_vars
    /\ [](\A config \in Configs : warningsAfter(config, appended.warnings) = warnings)

\* A step in which the host answers a request to one of its endpoints.
RequestStep ==
    /\ "turn" \in DOMAIN last'
    /\ "turn" \in DOMAIN last => last'.turn # last.turn

C16_SecretGuardsHostState ==
    /\ [][(RequestStep /\ Truthy(secret) /\ ~last'.matching) =>
            /\ last'.status = 401
            /\ last'.snapshot = NoSnapshot /\ last'.listing = << >>
            /\ UNCHANGED <<pendingCommands, timers, promise, fired, responses,
                           currentState>>]_vars
    /\ []((~Truthy(secret) /\ "turn" \in DOMAIN last) => last.status # 401)

\* The stored network entries, in buffer order.
StoredEntries == [i \in 1 .. Len(networkRequests) |-> heap[networkRequests[i]]]

\* A header object, or a stored body, holds the value p somewhere.
HeadersMention(headers, p) == \E key \in DOMAIN headers : headers[key] = p
RECURSIVE Mentions(_, _)
Mentions(value, p) ==
    IF value.t = "str" THEN value.s = p
    ELSE IF value.t = "text" THEN \E i \in 1 .. Len(value.raw) : value.raw[i] = p
    ELSE IF value.t = "arr" THEN \E i \in 1 .. Len(value.items) : Mentions(value.items[i], p)
    ELSE IF value.t = "obj"
    THEN \E i \in 1 .. Len(value.entries) : Mentions(value.entries[i].value, p)
    ELSE FALSE

\* What an entry holds of the fetch call, and of the response.
RequestPart(entry) ==
    [field \in DOMAIN entry \cap {"url", "method", "requestHeaders", "requestBody",
                                  "requestBodyTruncated"} |-> entry[field]]
ResponsePart(entry) ==
    [field \in DOMAIN entry \cap {"responseHeaders", "responseBody",
                                  "responseBodyTruncated"} |-> entry[field]]

\* C17: no stored network entry holds, in its request or response headers
\* or in its request or response body, the original value of a denied header
\* or of a denied body field, whatever the size or encoding of the body; and
\* two fetch calls, or two responses, that differ in such values only are
\* stored as identical entries: what an entry holds of the call, and of the
\* response, is what it would hold had the denied values been any others.
C17_NoDeniedValueStored ==
    /\ \A i \in 1 .. Len(StoredEntries), p \in SecretValues :
          LET entry == StoredEntries[i]
          IN  /\ "requestHeaders" \in DOMAIN entry => ~HeadersMention(entry.requestHeaders, p)
              /\ "responseHeaders" \in DOMAIN entry => ~HeadersMention(entry.responseHeaders, p)
              /\ "requestBody" \in DOMAIN entry => ~Mentions(entry.requestBody, p)
              /\ "responseBody" \in DOMAIN entry => ~Mentions(entry.responseBody, p)
    /\ \A i \in 1 .. Len(StoredEntries), p \in SecretValues, q \in SecretValues :
          LET entry == StoredEntries[i]
          IN  /\ \A shape \in CallShapes :
                    RequestPart(entry) = RequestPart(capturedRequest(Call(shape, p), "a", icfg))
                    => RequestPart(entry) = RequestPart(capturedRequest(Call(shape, q), "a", icfg))
              /\ \A shape \in ResponseShapes :
                    ResponsePart(entry) = ResponsePart(capturedResponse(Response(shape, p), icfg))
                    => ResponsePart(entry)
                          = ResponsePart(capturedResponse(Response(shape, q), icfg))

\* The names on the two default deny-lists, as the lists are matched.
DeniedHeader(name) ==
    toLowerCase(name) \in {"authorization", "cookie", "set-cookie", "x-api-key"}
DeniedField(name) == name \in {"password", "token", "secret", "apiKey", "api_key"}

\* redacted is original with the value of every denied field, at any depth,
\* replaced by the marker, and everything else (keys, order, other values)
\* as it was.
RECURSIVE Conforms(_, _)
Conforms(original, redacted) ==
    IF original.t = "arr"
    THEN /\ redacted.t = "arr"
         /\ Len(redacted.items) = Len(original.items)
         /\ \A i \in 1 .. Len(original.items) : Conforms(original.items[i], redacted.items[i])
    ELSE IF original.t = "obj"
    THEN /\ redacted.t = "obj"
         /\ Len(redacted.entries) = Len(original.entries)
         /\ \A i \in 1 .. Len(original.entries) :
               /\ redacted.entries[i].key = original.entries[i].key
               /\ IF DeniedField(original.entries[i].key)
                  THEN redacted.entries[i].value = Str(REDACTED)
                  ELSE Conforms(original.entries[i].value, redacted.entries[i].value)
    ELSE redacted = original

\* C18: redacting twice gives what redacting once gives, for headers and
\* for bodies; a denied header name in any casing and a denied body field at
\* any depth get the one marker '[REDACTED]'; keys are kept and the values of
\* other names are unchanged.  This holds of every header object and JSON
\* body the page or the server sends, and every stored header object and
\* parsed body is such a redaction result.
C18_RedactionIdempotent ==
    /\ \A p \in SecretValues, shape \in CallShapes \cup ResponseShapes :
          LET headers == IF shape \in CallShapes
                         THEN headersToObject(Call(shape, p).headers)
                         ELSE headersToObject(Response(shape, p).headers)
              once == redactHeaders(headers, icfg.redactHeaders)
          IN  /\ redactHeaders(once, icfg.redactHeaders) = once
              /\ DOMAIN once = DOMAIN headers
              /\ \A key \in DOMAIN headers :
                    once[key] = IF DeniedHeader(key) THEN REDACTED ELSE headers[key]
    /\ \A value \in JsonValues :
          LET once == redactBodyFields(value, icfg.redactBodyFields)
          IN  /\ redactBodyFields(once, icfg.redactBodyFields) = once
              /\ Conforms(value, once)
    /\ \A i \in 1 .. Len(StoredEntries) :
          LET entry == StoredEntries[i]
              Fixed(field) ==
                  (field \in DOMAIN entry /\ entry[field].t # "text") =>
                      redactBodyFields(entry[field], icfg.redactBodyFields) = entry[field]
          IN  /\ "requestHeaders" \in DOMAIN entry =>
                    /\ redactHeaders(entry.requestHeaders, icfg.redactHeaders)
                          = entry.requestHeaders
                    /\ \A key \in DOMAIN entry.requestHeaders :
                          DeniedHeader(key) => entry.requestHeaders[key] = REDACTED
              /\ "responseHeaders" \in DOMAIN entry =>
                    /\ redactHeaders(entry.responseHeaders, icfg.redactHeaders)
                          = entry.responseHeaders
                    /\ \A key \in DOMAIN entry.responseHeaders :
                          DeniedHeader(key) => entry.responseHeaders[key] = REDACTED
              /\ Fixed("requestBody")
              /\ Fixed("responseBody")

\* An entry is stored whose headers were redacted at two casings, and whose
\* request and response bodies were parsed and redacted, one of them inside
\* an array.
C18_Witness ==
    \E i \in 1 .. Len(StoredEntries) :
        LET entry == StoredEntries[i]
        IN  /\ "requestHeaders" \in DOMAIN entry /\ "requestBody" \in DOMAIN entry
            /\ "responseHeaders" \in DOMAIN entry /\ "responseBody" \in DOMAIN entry
            /\ {"Authorization", "X-API-KEY", "Accept"} \subseteq DOMAIN entry.requestHeaders
            /\ "set-cookie" \in DOMAIN entry.responseHeaders
            /\ entry.requestHeaders["Authorization"] = REDACTED
            /\ entry.requestHeaders["X-API-KEY"] = REDACTED
            /\ entry.requestHeaders["Accept"] = "json"
            /\ entry.responseHeaders["set-cookie"] = REDACTED
            /\ entry.requestBody = redactBodyFields(LoginBody("hunter2"), icfg.redactBodyFields)
            /\ entry.requestBody.entries[3].value.items[1].entries[1].value = Str(REDACTED)
            /\ entry.requestBody.entries[2].value = Str("shown")
            /\ entry.responseBody = Obj(<<[key |-> "token", value |-> Str(REDACTED)]>>)

\* C19: console methods and fetch are never wrapped twice and no handler is
\* registered twice; a setupInterceptors call made while interceptors are
\* installed leaves the hooks, the cleanup closures, the config in use and
\* the isIntercepting flag as they are, and so does invoking the callable
\* it returns.
C19_SecondInstallIsNoOp ==
    /\ [](/\ Len(hooks.console) <= 1 /\ Len(hooks.fetch) <= 1
          /\ Cardinality(hooks.error) <= 1 /\ Cardinality(hooks.unhandledrejection) <= 1)
    /\ [][(isIntercepting /\ pageOp' \in {"setupInterceptors", "setupInterceptors again"}) =>
            /\ hooks' = hooks /\ cleanupFns' = cleanupFns /\ icfg' = icfg
            /\ installed' = installed /\ isIntercepting'
            /\ pageOp' = "setupInterceptors again" => "noop" \in handles']_vars
    /\ [][(pageOp' = "noop" /\ pageOp # "noop") =>
            /\ hooks' = hooks /\ cleanupFns' = cleanupFns /\ icfg' = icfg
            /\ isIntercepting' = isIntercepting
            /\ UNCHANGED collectorVars]_vars

\* The no-op callable of a second call was invoked: the first installation
\* is in place, and the warning of the second call went through its console
\* wrapper.
C19_Witness ==
    /\ pageOp = "noop"
    /\ isIntercepting
    /\ hooks = [console |-> <<1>>, fetch |-> <<1>>, error |-> {1}, unhandledrejection |-> {1}]
    /\ Len(cleanupFns) = 4
    /\ \E i \in 1 .. Len(consoleEntries) :
          consoleEntries[i] = [level |-> "warn", message |-> "[xray] Interceptors already set up"]

\* C20: when a teardown callable has run, console and fetch are the
\* implementations from before the installation, no handler of it is
\* registered, no cleanup closure is left and isIntercepting is false;
\* whenever isIntercepting is false nothing of an installation is in place;
\* and a setupInterceptors call made then installs anew: the wrappers and
\* handlers of the new installation, its four cleanup closures, the flag set.
C20_TeardownRestores ==
    /\ [][pageOp' = "teardown" =>
            /\ hooks' = NativeHooks
            /\ cleanupFns' = << >>
            /\ ~isIntercepting']_vars
    /\ [](~isIntercepting => (hooks = NativeHooks /\ cleanupFns = << >>))
    /\ [][(~isIntercepting /\ pageOp' = "setupInterceptors" /\ pageOp' # pageOp) =>
            /\ isIntercepting'
            /\ installed' = installed + 1
            /\ hooks' = [console |-> <<installed'>>, fetch |-> <<installed'>>,
                         error |-> {installed'}, unhandledrejection |-> {installed'}]
            /\ Len(cleanupFns') = 4]_vars

\* The second installation was torn down after the first was.
C20_Witness ==
    /\ installed = 2
    /\ pageOp = "teardown"
    /\ hooks = NativeHooks
    /\ ~isIntercepting
    /\ Len(appended.console) > 0

\* C21: a call through the fetch wrapper draws an id no entry has, appends
\* one entry with that id, status null and duration null, leaves every other
\* entry alone and invokes originalFetch once.  When originalFetch settles,
\* the buffer keeps its entries and their order; the entry with the id, if it
\* is still in the buffer, gets the status of the response and a duration
\* (status 0 and the error message on a failure), every other entry object
\* stays as it is, and the wrapper hands its caller what originalFetch
\* gave: the response returned, the failure thrown.  A settled call changes
\* nothing afterwards and originalFetch is never invoked twice for a call.
C21_FetchWrapperLifecycle ==
    /\ [](\A id \in NetIds : calls[id].real <= 1)
    /\ [][\A id \in NetIds :
            (calls[id].state = "none" /\ calls'[id].state # "none") =>
                /\ calls'[id] = [real |-> 1, state |-> "pending", got |-> "", gave |-> ""]
                /\ id \notin HeapIds
                /\ Len(heap') = Len(heap) + 1
                /\ SubSeq(heap', 1, Len(heap)) = heap
                /\ heap'[Len(heap')].id = id
                /\ heap'[Len(heap')].status = Null
                /\ heap'[Len(heap')].duration = Null
                /\ networkRequests' = trimArray(Append(networkRequests, Len(heap')),
                                                cfg.maxNetworkEntries)]_vars
    /\ [][\A id \in NetIds :
            (calls[id].state = "pending" /\ calls'[id].state # "pending") =>
                /\ calls'[id].real = 1
                /\ calls'[id].gave = calls'[id].got
                /\ calls'[id].state = IF calls'[id].got = "Failed to fetch"
                                      THEN "thrown" ELSE "returned"
                /\ networkRequests' = networkRequests
                /\ Len(heap') = Len(heap)
                /\ \A i \in 1 .. Len(heap) :
                      IF heap[i].id = id /\ \E k \in 1 .. Len(networkRequests) :
                                               networkRequests[k] = i
                      THEN /\ heap'[i].duration # Null
                           /\ heap'[i].id = id /\ heap'[i].url = heap[i].url
                           /\ IF calls'[id].state = "thrown"
                              THEN heap'[i].status = "0" /\ heap'[i].error = "Failed to fetch"
                              ELSE heap'[i].status = "200"
                      ELSE heap'[i] = heap[i]]_vars
    /\ [][\A id \in NetIds :
            calls[id].state \in {"returned", "thrown"} =>
                /\ calls'[id] = calls[id]
                /\ \A i \in 1 .. Len(heap) : heap[i].id = id => heap'[i] = heap[i]]_vars

\* Two calls were made; the first has returned and its entry, still first
\* in the buffer, holds the status, the second is pending.
C21_Witness ==
    \E id \in NetIds, other \in NetIds :
        /\ id # other
        /\ calls[id].state = "returned"
        /\ calls[other].state = "pending"
        /\ Len(networkRequests) = 2
        /\ heap[networkRequests[1]].id = id /\ heap[networkRequests[1]].status = "200"
        /\ heap[networkRequests[2]].id = other /\ heap[networkRequests[2]].status = Null

\* Where a value lies in the input and in the processed tree: the positions
\* of the properties walked from the root, at most one per object plus the
\* leaf. Before(p, q): p comes before q in depth-first order.
Paths == UNION {[1 .. n -> 1 .. MaxKeys] : n \in 0 .. MaxObjects}
Absent == [t |-> "absent"]
RECURSIVE OutAt(_, _)
OutAt(tree, path) ==
    IF path = << >> THEN tree
    ELSE IF tree.t = "arr" /\ Head(path) <= Len(tree.items)
    THEN OutAt(tree.items[Head(path)], Tail(path))
    ELSE IF tree.t = "obj" /\ Head(path) <= Len(tree.entries)
    THEN OutAt(tree.entries[Head(path)].value, Tail(path))
    ELSE Absent
RECURSIVE TargetAt(_, _, _)
TargetAt(g, val, path) ==
    IF path = << >> THEN val
    ELSE IF "ref" \in DOMAIN val /\ Head(path) <= Len(g[val.ref].props)
    THEN TargetAt(g, g[val.ref].props[Head(path)], Tail(path))
    ELSE [absent |-> TRUE]
Before(p, q) ==
    /\ p # q
    /\ \/ Len(p) < Len(q) /\ SubSeq(q, 1, Len(p)) = p
       \/ \E i \in 1 .. Len(p) :
             /\ i <= Len(q)
             /\ p[i] < q[i]
             /\ SubSeq(p, 1, i - 1) = SubSeq(q, 1, i - 1)
Emitted(path) == OutAt(serialized.processed, path)
Given(path) == TargetAt(graph, Ref(1), path)
IsObject(val) == "ref" \in DOMAIN val

\* C22 (as stated): safeSerialize terminates on a graph with a cycle or a
\* shared object, and of the occurrences of one object in the output the
\* first in depth-first order is serialized normally (as an object or an
\* array) and every later one is "[Circular]".
C22_EveryLaterOccurrenceCircular ==
    (serialized.called /\ ~serialized.threw) =>
        \A p \in Paths :
            (Emitted(p) # Absent /\ IsObject(Given(p))) =>
                IF \E q \in Paths :
                       Before(q, p) /\ Emitted(q) # Absent /\ Given(q) = Given(p)
                THEN Emitted(p) = Str("[Circular]")
                ELSE Emitted(p).t \in {"arr", "obj"}

\* C22 (amended): safeSerialize terminates, and of the occurrences of one
\* object that the walk reaches at a depth of at most maxDepth, taken in
\* depth-first order, the first is serialized normally and every later one
\* yields "[Circular]", on a cycle or not; an occurrence deeper than
\* maxDepth yields "[Max Depth Exceeded]" and leaves the visited set alone;
\* an object stays visited when the key it was first met under failed and
\* its serialization was dropped with the key.
C22_RepeatsWithinDepthCircular ==
    serialized.called =>
        LET visits == serialized.visits
        IN  /\ \A i \in 1 .. Len(visits) :
                  /\ Len(visits[i].at) <= serialized.maxDepth
                  /\ Given(visits[i].at) = Ref(visits[i].obj)
                  /\ visits[i].gave =
                         IF \E j \in 1 .. i - 1 : visits[j].obj = visits[i].obj
                         THEN "[Circular]" ELSE "expanded"
                  /\ \A j \in 1 .. i - 1 : Before(visits[j].at, visits[i].at)
            /\ serialized.seen = {visits[i].obj : i \in 1 .. Len(visits)}
            /\ ~serialized.threw =>
                  \A p \in Paths :
                      (Emitted(p) # Absent /\ IsObject(Given(p))) =>
                          IF Len(p) > serialized.maxDepth
                          THEN Emitted(p) = Str("[Max Depth Exceeded]")
                          ELSE \E i \in 1 .. Len(visits) :
                                  /\ visits[i].at = p
                                  /\ IF visits[i].gave = "[Circular]"
                                     THEN Emitted(p) = Str("[Circular]")
                                     ELSE \/ Emitted(p) = Str("[Unserializable]")
                                          \/ Emitted(p).t =
                                                 IF graph[visits[i].obj].array
                                                 THEN "arr" ELSE "obj"

\* The value is {a: shared, b: shared} with shared = {a: value}: the first
\* occurrence of `shared` is an object, the one on the cycle and the second
\* one off the cycle are both "[Circular]".
C22_Witness ==
    /\ serialized.called
    /\ serialized.maxDepth = DEFAULT_OPTIONS.maxDepth
    /\ graph[1] = [array |-> FALSE, props |-> <<Ref(2), Ref(2)>>]
    /\ graph[2] = [array |-> FALSE, props |-> <<Ref(1)>>]
    /\ serialized.processed =
           Obj(<<[key |-> "a",
                  value |-> Obj(<<[key |-> "a", value |-> Str("[Circular]")]>>)],
                 [key |-> "b", value |-> Str("[Circular]")]>>)

\* C23: safeSerialize returns a string for every input and never raises. A
\* key of a plain object whose read throws is "[Unserializable]", and so is
\* a key whose serialization throws (an array met for the first time within
\* maxDepth that holds such a property); the object keeps all its keys in
\* order and a key that holds a string or a plain object is serialized as
\* if the failing key were not there. A failure no key catches (the value
\* is an array) gives the text "[Serialization Error: " + message + "]".
C23_NeverRaises ==
    serialized.called =>
        /\ Len(serialized.text) > 0
        /\ serialized.threw =>
              /\ graph[1].array
              /\ serialized.text =
                     Chars("[Serialization Error: ") \o Chars("boom") \o <<"]">>
        /\ ~serialized.threw =>
              \A p \in Paths :
                  Emitted(p).t = "obj" =>
                      LET props == graph[Given(p).ref].props
                          entries == Emitted(p).entries
                      IN  /\ Len(entries) = Len(props)
                          /\ \A i \in 1 .. Len(props) :
                                LET v == props[i]
                                    e == entries[i].value
                                    deep == Len(p) + 1 > serialized.maxDepth
                                IN  /\ entries[i].key = KeyNames[i]
                                    /\ "getter" \in DOMAIN v => e = Str("[Unserializable]")
                                    /\ "lit" \in DOMAIN v =>
                                           e = IF deep THEN Str("[Max Depth Exceeded]")
                                               ELSE Str(v.lit)
                                    /\ (IsObject(v) /\ ~graph[v.ref].array) =>
                                           e # Str("[Unserializable]")
                                    /\ (IsObject(v) /\ graph[v.ref].array
                                           /\ e = Str("[Unserializable]")) =>
                                           \E item \in {graph[v.ref].props[k] :
                                                           k \in 1 .. Len(graph[v.ref].props)} :
                                               \/ "getter" \in DOMAIN item
                                               \/ IsObject(item) /\ graph[item.ref].array
                                    /\ (IsObject(v) /\ graph[v.ref].array
                                           /\ \E k \in 1 .. Len(serialized.visits) :
                                                 serialized.visits[k] =
                                                     Visit(Append(p, i), v.ref, "expanded")
                                           /\ \E m \in 1 .. Len(graph[v.ref].props) :
                                                 "getter" \in DOMAIN graph[v.ref].props[m]) =>
                                           e = Str("[Unserializable]")

\* The value is {a: <accessor that throws>, b: "x"}.
C23_Witness ==
    /\ serialized.called
    /\ graph[1] = [array |-> FALSE, props |-> <<Getter, Lit("x")>>]
    /\ serialized.processed =
           Obj(<<[key |-> "a", value |-> Str("[Unserializable]")],
                 [key |-> "b", value |-> Str("x")]>>)
    /\ serialized.text = <<"{">> \o Quoted("a") \o <<":">> \o Quoted("[Unserializable]")
                             \o <<",">> \o Quoted("b") \o <<":">> \o Quoted("x") \o <<"}">>

\* C24: with maxDepth = D (the root at depth 0), a value at depth D + 1 is
\* emitted as "[Max Depth Exceeded]" and nothing below it is visited or
\* emitted; no value at depth D or less is replaced by the marker; every
\* property of an object or array that was serialized normally is emitted.
C24_DepthLimit ==
    serialized.called =>
        /\ \A i \in 1 .. Len(serialized.visits) :
              Len(serialized.visits[i].at) <= serialized.maxDepth
        /\ ~serialized.threw =>
              \A p \in Paths :
                  /\ Emitted(p) # Absent =>
                        /\ Len(p) <= serialized.maxDepth + 1
                        /\ (Len(p) = serialized.maxDepth + 1
                               /\ "getter" \notin DOMAIN Given(p)) =>
                               Emitted(p) = Str("[Max Depth Exceeded]")
                        /\ Len(p) <= serialized.maxDepth =>
                               Emitted(p) # Str("[Max Depth Exceeded]")
                  /\ (Len(p) > 0
                         /\ Emitted(SubSeq(p, 1, Len(p) - 1)).t \in {"arr", "obj"}
                         /\ "absent" \notin DOMAIN Given(p)) =>
                         Emitted(p) # Absent

\* maxDepth = 1 and the value is {a: {a: {}}}: the object at depth 2 is the
\* marker, the one at depth 1 is not.
C24_Witness ==
    /\ serialized.called
    /\ serialized.maxDepth = 1
    /\ graph[1].props = <<Ref(2)>>
    /\ graph[2] = [array |-> FALSE, props |-> <<Ref(3)>>]
    /\ serialized.processed =
           Obj(<<[key |-> "a",
                  value |-> Obj(<<[key |-> "a",
                                   value |-> Str("[Max Depth Exceeded]")]>>)]>>)
    /\ serialized.seen = {1, 2}

\* C25: when maxLength > 0 and JSON.stringify(processed) is longer than
\* maxLength, the text returned is its first maxLength characters followed
\* by "...[truncated]", of length maxLength + 14; otherwise (maxLength = 0
\* included) it is JSON.stringify(processed) unchanged.
C25_Truncation ==
    (serialized.called /\ ~serialized.threw) =>
        LET full == JSONstringify(serialized.processed)
            n == serialized.maxLength
        IN  IF n > 0 /\ Len(full) > n
            THEN /\ Len(serialized.text) = n + 14
                 /\ SubSeq(serialized.text, 1, n) = SubSeq(full, 1, n)
                 /\ SubSeq(serialized.text, n + 1, n + 14) =
                        <<".", ".", ".", "[", "t", "r", "u", "n", "c", "a", "t", "e", "d", "]">>
            ELSE serialized.text = full

\* maxLength = 5 and the value is {a: "x"}, whose text {"a":"x"} has 9
\* characters.
C25_Witness ==
    /\ serialized.called
    /\ serialized.maxLength = 5
    /\ graph[1] = [array |-> FALSE, props |-> <<Lit("x")>>]
    /\ serialized.text = <<"{", "\"", "a", "\"", ":", ".", ".", ".", "[", "t", "r", "u",
                           "n", "c", "a", "t", "e", "d", "]">>

\* A step in which GET /xray/assert is answered after evaluateAssertion ran,
\* and what it ran on.
AssertStep == RequestStep /\ last'.op = "assert" /\ "raised" \in DOMAIN last'.verdict
FamilyOf(result) ==
    LET d == DOMAIN result.details
    IN  IF "errors" \in d THEN "errors"
        ELSE IF "component" \in d \/ "available" \in d THEN "component"
        ELSE IF "pattern" \in d THEN "network"
        ELSE IF "error" \in d THEN "unknown"
        ELSE "route"
FirstFamily(params) ==
    IF In("errors", params) /\ ParamOf(params, "errors") = "empty" THEN "errors"
    ELSE IF In("component", params) THEN "component"
    ELSE IF In("route", params) THEN "route"
    ELSE IF In("network", params) THEN "network"
    ELSE "none"
OwnKeys(family) ==
    IF family = "errors" THEN {"errors"}
    ELSE IF family = "component" THEN {"component"} \cup DOMAIN Segments
    ELSE IF family = "route" THEN {"route"}
    ELSE IF family = "network" THEN {"network", "status"}
    ELSE {}
OwnParams(params, family) == SelectSeq(params, LAMBDA entry : entry.key \in OwnKeys(family))
SameVerdict(r1, r2) ==
    /\ r1.raised = r2.raised
    /\ ~r1.raised => /\ r1.passed = r2.passed
                     /\ r1.details = r2.details
                     /\ r1.hint = r2.hint
RouteOf(state) == IF "route" \in DOMAIN state THEN state.route ELSE Undefined

\* C26: a call of evaluateAssertion that returns gives the verdict of one
\* family: the first of errors (as errors=empty), component, route in the
\* parameters, else the network one or the unknown-assertion result; any
\* parameter set with the same first family and the same parameters of that
\* family gives the same verdict on the same snapshot.  errors=empty passes
\* iff the snapshot has no errors; route passes iff the snapshot's route is
\* the given string, and the hint of a failure holds both.
C26_OneFamilyInOrder ==
    [][(AssertStep /\ ~last'.verdict.raised) =>
          LET r == last'.verdict
              params == Params(r.assertion)
              first == FirstFamily(params)
          IN  /\ FamilyOf(r) \in {first, "unknown"}
              /\ first \in {"errors", "component", "route"} => FamilyOf(r) = first
              /\ \A g \in Forms :
                    (/\ FirstFamily(Params(g)) = first
                     /\ OwnParams(Params(g), first) = OwnParams(params, first)) =>
                        SameVerdict(evaluateAssertion(currentState, g), r)
              /\ first = "errors" => r.passed = (currentState.errors = << >>)
              /\ first = "route" =>
                    /\ r.passed = (RouteOf(currentState) = ParamOf(params, "route"))
                    /\ ~r.passed =>
                          /\ r.hint.actual = RouteOf(currentState)
                          /\ r.hint.expected = ParamOf(params, "route")]_vars

\* errors=empty&route=/other on the snapshot of the application at rest,
\* whose route is /dashboard: passed, by the errors family.
C26_Witness ==
    /\ last.op = "assert"
    /\ currentState = AppSnapshot
    /\ last.verdict =
           AssertionResult(TRUE, "errors=empty&route=/other",
                           [expected |-> "no errors", actual |-> 0, errors |-> << >>],
                           Undef)

\* C27: for every stored snapshot and every parameter set, GET /xray/assert
\* is answered with a result {passed, assertion, details, hint?} and
\* evaluateAssertion does not raise; a parameter set of no supported form
\* gives passed:false with a hint.
C27_AssertNeverRaises ==
    (last.op = "assert" /\ "raised" \in DOMAIN last.verdict) =>
        /\ ~last.verdict.raised
        /\ last.status = 200
        /\ {"passed", "assertion", "details", "hint"} \subseteq DOMAIN last.verdict
        /\ FirstFamily(Params(last.verdict.assertion)) = "none" =>
              /\ ~last.verdict.passed
              /\ last.verdict.hint # Undef

\* Dotted-path lookup among the own properties of the component's state,
\* and the literal an expected string stands for.
RECURSIVE DottedLookup(_, _)
DottedLookup(value, parts) ==
    IF parts = << >> THEN value
    ELSE IF value.t # "obj" THEN Undef
    ELSE IF \E i \in 1 .. Len(value.entries) : value.entries[i].key = Head(parts)
    THEN DottedLookup((CHOOSE entry \in {value.entries[i] : i \in 1 .. Len(value.entries)} :
                           entry.key = Head(parts)).value, Tail(parts))
    ELSE Undef
Literal(str) ==
    IF str = "true" THEN Bool(TRUE)
    ELSE IF str = "false" THEN Bool(FALSE)
    ELSE IF str = "null" THEN Nul
    ELSE IF str = "undefined" THEN Undef
    ELSE IF str \in DOMAIN NumberOf /\ str # "" THEN Num(NumberOf[str])
    ELSE Str(str)

\* C28: a component assertion passes iff the named component is in the
\* snapshot's registered mapping and, for every parameter state or
\* state.<path>, the value found by dotted-path lookup in the component's
\* state is strictly equal to the literal parsed from the expected string.
C28_ComponentAssertion ==
    [][(AssertStep /\ ~last'.verdict.raised
            /\ FirstFamily(Params(last'.verdict.assertion)) = "component") =>
          LET r == last'.verdict
              params == Params(r.assertion)
              name == ParamOf(params, "component")
          IN  r.passed =
                  (/\ name \in DOMAIN currentState.registered
                   /\ \A i \in 1 .. Len(params) :
                         params[i].key \in DOMAIN Segments =>
                             LET found == DottedLookup(currentState.registered[name].state,
                                                       Tail(Segments[params[i].key]))
                             IN  /\ found.t \in {"str", "num", "bool", "null", "undefined"}
                                 /\ found = Literal(params[i].value))]_vars

\* A status pattern: a three-digit code, or a digit followed by xx; and
\* whether a status is matched by the whole of it.
StatusPatterns == {"5xx", "500", "4xx", "404", "2xx", "200"}
PatternMatches(pattern, status) ==
    LET P == Letters[pattern]
        T == Letters[status]
    IN  /\ Len(T) = 3
        /\ P[1] = T[1]
        /\ \/ P[2] = "x" /\ P[3] = "x" /\ T[2] \in Digits /\ T[3] \in Digits
           \/ P[2] = T[2] /\ P[3] = T[3]

\* C29: a network assertion with a status pattern gives a network verdict
\* for every such pattern: it passes iff no network entry with a non-null
\* status matches the whole pattern; a pending entry (status null) never
\* matches.
C29_NetworkStatusPattern ==
    [][(AssertStep /\ ~last'.verdict.raised
            /\ FirstFamily(Params(last'.verdict.assertion)) = "network"
            /\ ParamOf(Params(last'.verdict.assertion), "status") \in StatusPatterns) =>
          LET r == last'.verdict
              status == ParamOf(Params(r.assertion), "status")
          IN  /\ FamilyOf(r) = "network"
              /\ r.passed =
                     ~\E i \in 1 .. Len(currentState.network) :
                         /\ currentState.network[i].status # Null
                         /\ PatternMatches(status, currentState.network[i].status)]_vars

\* C30: an authorized GET /xray/clear leaves the stored snapshot with empty
\* errors, warnings, console and network and with every other field
\* (registered, url, route, title, timestamp) as it was; with no snapshot
\* stored there is none afterwards; the pending commands, their timers and
\* their promises are as before.
C30_ClearKeepsRegistered ==
    [][(RequestStep /\ last'.op = "clear" /\ last'.status = 200) =>
          /\ currentState = NoSnapshot => currentState' = NoSnapshot
          /\ currentState # NoSnapshot =>
                /\ DOMAIN currentState' = DOMAIN currentState \cup DOMAIN NothingAppended
                /\ \A f \in DOMAIN NothingAppended : currentState'[f] = << >>
                /\ \A f \in DOMAIN currentState \ DOMAIN NothingAppended :
                      currentState'[f] = currentState[f]
          /\ UNCHANGED <<pendingCommands, timers, promise, fired, responses>>]_vars

\* The snapshot of the application at rest was pushed and then cleared
\* while a command was pending: its two requests are gone, its component
\* is there.
C30_Witness ==
    /\ last.op = "clear"
    /\ last.status = 200
    /\ currentState = [AppSnapshot EXCEPT !.network = << >>]
    /\ "Counter" \in DOMAIN currentState.registered
    /\ pendingCommands # << >>

\* The adapter operation of this step is one of ops.
AdapterStep(ops) == adapter' # adapter /\ adapter'.op \in ops
\* Nothing was registered or replaced in any collector by this step.
NothingRegistered ==
    \A c \in CollectorIds : \A n \in DOMAIN registries'[c] :
        n \in DOMAIN registries[c] /\ registries'[c][n] = registries[c][n]

\* C31: an adapter's initialization (XrayProvider mount, xrayVuePlugin
\* install, initXray, each enabled) leaves the current-collector pointer set
\* to the collector it created; the adapter's teardown (XrayProvider unmount,
\* cleanupXray, the callable initXray returned) leaves it null; while it is
\* null, registerState / unregisterState of the bindings change no
\* collector and useXray registers nothing.
C31_PointerFollowsLifecycle ==
    [][/\ AdapterStep({"XrayProvider", "install", "initXray"})
          => globalCollector' = adapter'.own /\ globalCollector' # Null
       /\ AdapterStep({"XrayProvider.unmount", "cleanupXray", "initXray.cleanup"})
          => globalCollector' = Null
       /\ globalCollector = Null /\ AdapterStep({"registerState", "unregisterState"})
          => registries' = registries
       /\ globalCollector = Null /\ AdapterStep({"useXray"}) => NothingRegistered
      ]_vars


\* The request declared or has streamed more than the ceiling.
Oversized ==
    \/ incoming.declaration = "length" /\ Len(encode(incoming.text)) > maxRequestBodySize
    \/ reader.receivedSize > maxRequestBodySize

\* C32: a request body whose declared Content-Length or whose streamed size
\* exceeds maxRequestBodySize is answered with 413 exactly once, is never
\* buffered beyond the limit, and the snapshot is not replaced; a body
\* within the limit whose request ends is delivered to the handler whole,
\* exactly once.
C32_BodyLimit ==
    /\ Len(reader.body) <= maxRequestBodySize
    /\ Oversized => answers = <<413>> /\ reader.resolved = <<Nul>>
                    /\ currentState = NoSnapshot
    /\ ~Oversized /\ incoming.state = "ended"
       => reader.resolved = <<Text(incoming.text)>>
          /\ currentState = Text(incoming.text)

\* The component is mounted under an enabled provider.
MountedUnderProvider ==
    adapter.kind = "react" /\ adapter.phase = "mounted" /\ consumer.mounted
RegisteredIn(c) == c # Null /\ ComponentName \in DOMAIN registries[c]

\* C33: while a component that calls useXray(name, state) stays mounted
\* under an enabled provider, after every render name is in the registered
\* map of the provider's collector with the state of the latest render, also
\* when the render passed a new object whose serialized value equals the
\* previous one; the name leaves the map only when the component unmounts.
C33_RegisteredWhileMounted ==
    [][/\ MountedUnderProvider'
          => /\ RegisteredIn(adapter.own)'
             /\ registries'[adapter'.own][ComponentName] = consumer'.state
       /\ (\E c \in CollectorIds : RegisteredIn(c) /\ ~RegisteredIn(c)')
          => AdapterStep({"useXray.unmount", "XrayProvider.unmount"})
      ]_vars

\* The command with this id has timed out on the host.
TimedOut(id) == \E c \in Commands : promise[id] = TimeoutOutcome(c)

\* C34: once a command has timed out on the host, no client starts
\* executing it, also when the client fetched the pending list before the
\* timeout and is still working through earlier commands of that list.
C34_TimeoutCancels ==
    [][\A id \in Ids : TimedOut(id) => executed'[id] = executed[id]]_vars

\* Some poll activation holds the command with this id in the list it
\* fetched.
Fetched(id) ==
    \E f \in 1 .. Len(pollFrames) : \E i \in 1 .. Len(pollFrames[f].commands) :
        pollFrames[f].commands[i].id = id

QueueOrder == [k \in 1 .. Len(pendingCommands) |-> pendingCommands[k].id]

\* The ids of the commands of a listing, in its order.
ListingOrder(commands) == [k \in 1 .. Len(commands) |-> commands[k].id]

\* Activation f of the poll loop is the same activation after the step.
SameActivation(f) == Len(pollFrames') = Len(pollFrames) /\ f \in 1 .. Len(pollFrames)

\* C37: within one poll cycle the client executes the fetched commands one
\* at a time in the order of the host's listing, which is the order they
\* were queued in, and posts each result before it starts the next command;
\* when fetching the list or posting a result fails the cycle is abandoned,
\* and a command leaves the pending table only when a cycle reports it or
\* its timeout fires.
C37_CycleInListingOrder ==
    [][/\ \* the table keeps the order of queueing
          \/ pendingCommands' = pendingCommands
          \/ \E id \in Ids \ PendingIds : QueueOrder' = Append(QueueOrder, id)
          \/ \E id \in PendingIds : pendingCommands' = MapDelete(pendingCommands, id)
       /\ \* a listing is the table in its order, and the cycle starts at its head
          \A f \in 1 .. Len(pollFrames) :
             SameActivation(f) /\ pollFrames[f].pc = "fetch" /\ pollFrames'[f].pc # "fetch"
             => /\ ListingOrder(pollFrames'[f].commands) = QueueOrder
                /\ pollFrames'[f].i = 1
       /\ \* the one command a step runs is the next of the listing
          \A id \in Ids :
             executed'[id] # executed[id]
             => /\ \A other \in Ids \ {id} : executed'[other] = executed[other]
                /\ \E f \in 1 .. Len(pollFrames) :
                      LET fr == pollFrames[f]
                      IN  /\ fr.pc = "loop" /\ fr.i <= Len(fr.commands)
                          /\ fr.commands[fr.i].id = id
                          /\ \/ Len(pollFrames') < Len(pollFrames)
                             \/ /\ pollFrames'[f].pc = "post"
                                /\ pollFrames'[f].msg.id = id
                                /\ pollFrames'[f].i = fr.i
       /\ \* the next command starts only after the host answered the post
          \A f \in 1 .. Len(pollFrames) :
             SameActivation(f) /\ pollFrames[f].pc = "post" /\ pollFrames'[f] # pollFrames[f]
             => /\ pollFrames'[f].pc = "loop"
                /\ pollFrames'[f].i = pollFrames[f].i + 1
                /\ pollFrames'[f].commands = pollFrames[f].commands
                /\ ResultStatus(pollFrames[f].msg) = 200
                   => pollFrames[f].msg.id \notin PendingIds'
       /\ \* an abandoned cycle leaves the table as it is
          Len(pollFrames') < Len(pollFrames) => pendingCommands' = pendingCommands
       /\ \* a command leaves the table when it is reported or times out
          \A id \in PendingIds :
             id \notin PendingIds'
             => \/ \E f \in 1 .. Len(pollFrames) :
                      /\ pollFrames[f].pc = "post" /\ pollFrames[f].msg.id = id
                      /\ promise'[id] # promise[id] /\ ~TimedOut(id)'
                \/ TimedOut(id)' /\ ~TimedOut(id)]_vars

\* C37 witness: a cycle listed two commands, the first one's result was
\* posted and resolved it, and the second one's result is being posted.
C37_Witness ==
    \E f \in 1 .. Len(pollFrames) :
       LET fr == pollFrames[f]
       IN  /\ Len(fr.commands) = 2 /\ fr.i = 2 /\ fr.pc = "post"
           /\ fr.commands[1].id \notin PendingIds
           /\ ~TimedOut(fr.commands[1].id)
           /\ fr.commands[2].id \in PendingIds
           /\ executed[fr.commands[1].id] = 1 /\ executed[fr.commands[2].id] = 1

\* A step in which the callable returned by installation n ran.
TeardownRan(n) ==
    /\ pageOp' = "teardown" /\ invoked' = n
    /\ pageOp # "teardown" \/ invoked # n \/ hooks' # hooks

\* C38: the teardown callable a successful setupInterceptors returned removes
\* only the hooks of its own installation: when it is invoked again after a
\* later call has installed interceptors anew, the console and fetch wrappers
\* of the later installation, its handlers, its cleanup closures and the
\* isIntercepting flag stay as they are.
C38_TeardownOnlyOwn ==
    [][\A n \in 1 .. MaxInstalls :
          TeardownRan(n) /\ n < installed /\ isIntercepting
          => /\ hooks' = hooks
             /\ cleanupFns' = cleanupFns
             /\ isIntercepting']_vars

\* The step recorded one call of fetch(url, {method}) as a network entry: a
\* new entry object with a new id, appended to the capped buffer, whose
\* oldest entry leaves when the buffer was full.
RecordedCall(url, method) ==
    /\ Len(heap') = Len(heap) + 1
    /\ Len(appended'.network) = Len(appended.network) + 1
    /\ \A k \in 1 .. Len(heap) : heap'[k] = heap[k] /\ heap[k].id # heap'[Len(heap')].id
    /\ heap'[Len(heap')].url = url
    /\ heap'[Len(heap')].method = method
    /\ heap'[Len(heap')].status = Null
    /\ networkRequests' =
          (IF Len(networkRequests) >= cfg.maxNetworkEntries
           THEN Tail(networkRequests) ELSE networkRequests) \o <<Len(heap')>>

\* C39: every call made through fetch while interceptors are installed is
\* recorded as one network entry, and so are the calls of the client loops
\* to the host (the state push, the command poll, the result report): they
\* enter the same capped network buffer as the application's calls and
\* evict its oldest entry when it is full.
C39_LoopCallsRecorded ==
    [][hooks.fetch # << >> =>
          /\ Len(pushFrames') > Len(pushFrames) => RecordedCall("/xray/__push", "POST")
          /\ Len(pollFrames') > Len(pollFrames) => RecordedCall("/xray/__commands", "GET")
          /\ \A f \in 1 .. Len(pollFrames) :
                SameActivation(f) /\ pollFrames[f].pc = "loop" /\ pollFrames'[f].pc = "post"
                => RecordedCall("/xray/__result", "POST")
          /\ \A id \in NetIds :
                calls'[id].real > calls[id].real => RecordedCall("/upload", "GET")
          /\ Len(networkRequests') <= cfg.maxNetworkEntries]_vars

\* C39 witness: a call of a loop pushed the entry of an application call
\* out of the full buffer, and the entry of a loop's call left it as well.
C39_Witness ==
    /\ hooks.fetch # << >>
    /\ Len(networkRequests) = cfg.maxNetworkEntries
    /\ heap[networkRequests[Len(networkRequests)]].url = "/xray/__result"
    /\ \E k \in 1 .. Len(heap) :
          heap[k].url = "/upload" /\ \A j \in 1 .. Len(networkRequests) : networkRequests[j] # k
    /\ \E k \in 1 .. Len(heap) :
          heap[k].url = "/xray/__commands"
          /\ \A j \in 1 .. Len(networkRequests) : networkRequests[j] # k

\* The step in which the host answered a /xray/clear request with 200.
ClearRan == last' # last /\ last'.op = "clear" /\ last'.status = 200

\* The entries the client's collector holds in its four buffers.
Buffered ==
    [errors |-> errors, warnings |-> warnings, console |-> consoleEntries,
     network |-> [k \in 1 .. Len(networkRequests) |-> heap[networkRequests[k]]]]

\* The entries a snapshot shows.
Shown(snapshot) ==
    [errors |-> snapshot.errors, warnings |-> snapshot.warnings,
     console |-> snapshot.console, network |-> snapshot.network]

\* C40: /xray/clear acts on the host's copy only: it empties the four arrays
\* of the stored snapshot and leaves the client's collector, its buffers and
\* the pushes in flight as they are; a push carries every entry the collector
\* holds when it starts, and the stored snapshot changes only by a clear or
\* by an accepted push, which replaces it with what the push carries.
C40_ClearIsHostOnly ==
    [][/\ ClearRan
          => /\ UNCHANGED <<collectorVars, clientVars>>
             /\ Shown(currentState') = NothingAppended
             /\ currentState'.timestamp = currentState.timestamp
       /\ Len(pushFrames') > Len(pushFrames)
          => /\ Shown(pushFrames'[Len(pushFrames')].body) = Buffered
             /\ Buffered' = Buffered
       /\ currentState' # currentState
          => \/ ClearRan
             \/ /\ Len(pushFrames') < Len(pushFrames)
                /\ currentState' = pushFrames[1].body]_vars

\* C40 witness: after a clear the host accepted a push and shows the errors,
\* warnings, console and network entries the client still holds.
C40_Witness ==
    /\ last.op = "clear" /\ last.status = 200
    /\ pushFrames = << >>
    /\ Shown(currentState) = Buffered
    /\ errors # << >> /\ warnings # << >>
    /\ consoleEntries # << >> /\ networkRequests # << >>
====
